---- MODULE Spec2Model ----
(***************************************************************************)
(* The remote invocation engine of modal/functions.py: the map engine      *)
(* (map_invocation: drain, pump and poll tasks under stream.merge) and the *)
(* single-call Invocation (get_items, run_function, poll_function,         *)
(* run_generator), each against a control plane that accepts inputs and    *)
(* hands out outputs.                                                      *)
(***************************************************************************)
EXTENDS Integers, Sequences, FiniteSets, TLC

\* ---------------------------------------------------------------- bounds
\* Longest source stream of a map over a function.
MaxInputs == 3
\* Longest source stream of a map over a generator.
MaxGenInputs == 2
\* Most data items the server produces for the inputs of a generator map.
MaxGenItems == 2
\* Most times the server rejects PutInputs requests (RESOURCE_EXHAUSTED) in a run.
MaxRejects == 2
\* functions.py:172 sets 100; scaled so that a source can exceed one chunk.
MAP_INVOCATION_CHUNK_SIZE == 2

\* Caller timeouts tried with poll_function, besides None and 0: one shorter
\* and one longer than the server-side cap.
ShortTimeout == 2
LongTimeout == 61
\* The poll counters of one get_items call stop counting here.
MaxPolls == 4
\* Most data items the server produces for a single call.
MaxCallItems == 4

MaxSource == IF MaxInputs > MaxGenInputs THEN MaxInputs ELSE MaxGenInputs

\* ------------------------------------------------------- values and bytes
\* A Python object: its type, an integer payload, a message and the length
\* of its pickle.
Obj(t, v, m, s) == [type |-> t, val |-> v, msg |-> m, size |-> s]
NoObj == Obj("NoneType", 0, "", 0)
IsException(obj) == obj.type \in {"Exception", "ExecutionError", "RemoteError",
                                  "TimeoutError", "AssertionError"}

\* Payloads strictly larger than this go through the blob side-channel.
MAX_OBJECT_SIZE_BYTES == 2

NoBytes == <<>>
serialize(obj) == <<"pickle", obj>>
ByteLen(data) == IF data = NoBytes THEN 0 ELSE data[2].size
CanDeserialize(data) == Len(data) = 2 /\ data[1] = "pickle"
deserialize(data) == data[2]

NoBlob == <<>>
blob_upload(data) == <<"bl", data>>
blob_download(blob_id) == blob_id[2]

GENERIC_STATUS_SUCCESS == "SUCCESS"
GENERIC_STATUS_FAILURE == "FAILURE"
GENERATOR_STATUS_NONE == "NONE"
GENERATOR_STATUS_COMPLETE == "COMPLETE"

Return(v) == [kind |-> "return", value |-> v]
Raise(e) == [kind |-> "raise", value |-> e]

\* A _process_result without the isinstance check of line 51.
process_result_NoTypeCheck(result) ==
  LET data == IF result.data_oneof = "data_blob_id"
              THEN blob_download(result.data_blob_id)
              ELSE result.data
  IN IF result.status # GENERIC_STATUS_SUCCESS
     THEN IF data # NoBytes
          THEN IF ~CanDeserialize(data)
               THEN Raise(Obj("ExecutionError", 1, "Could not deserialize remote exception", 0))
               ELSE Raise(deserialize(data))
          ELSE Raise(Obj("RemoteError", 0, result.exception, 0))
     ELSE IF CanDeserialize(data)
          THEN Return(deserialize(data))
          ELSE Raise(Obj("Exception", 3, "unpickling error", 0))

\* A _process_result that reads result.data whatever data_oneof says.
process_result_InlineOnly(result) ==
  IF result.status # GENERIC_STATUS_SUCCESS
  THEN IF result.data # NoBytes
       THEN IF ~CanDeserialize(result.data)
            THEN Raise(Obj("ExecutionError", 1, "Could not deserialize remote exception", 0))
            ELSE IF ~IsException(deserialize(result.data))
                 THEN Raise(Obj("ExecutionError", 2, "Got remote exception of incorrect type", 0))
                 ELSE Raise(deserialize(result.data))
       ELSE Raise(Obj("RemoteError", 0, result.exception, 0))
  ELSE IF CanDeserialize(result.data)
       THEN Return(deserialize(result.data))
       ELSE Raise(Obj("Exception", 3, "unpickling error", 0))

\* functions.py:33-57
process_result(result) ==
  LET data == IF result.data_oneof = "data_blob_id"
              THEN blob_download(result.data_blob_id)
              ELSE result.data
  IN IF result.status # GENERIC_STATUS_SUCCESS
     THEN IF data # NoBytes
          THEN IF ~CanDeserialize(data)
               THEN Raise(Obj("ExecutionError", 1, "Could not deserialize remote exception", 0))
               ELSE IF ~IsException(deserialize(data))
                    THEN Raise(Obj("ExecutionError", 2, "Got remote exception of incorrect type", 0))
                    ELSE Raise(deserialize(data))
          ELSE Raise(Obj("RemoteError", 0, result.exception, 0))
     ELSE IF CanDeserialize(data)
          THEN Return(deserialize(data))
          ELSE Raise(Obj("Exception", 3, "unpickling error", 0))

\* functions.py:60-78
NoneItem == [idx |-> -1, oneof |-> "None", args |-> NoBytes, args_blob_id |-> NoBlob]
\* A _create_input that sends a pickle of exactly the limit as a blob too.
create_input_AtLimit(args, idx) ==
  IF ByteLen(serialize(args)) >= MAX_OBJECT_SIZE_BYTES
  THEN [idx |-> idx, oneof |-> "args_blob_id", args |-> NoBytes,
        args_blob_id |-> blob_upload(serialize(args))]
  ELSE [idx |-> idx, oneof |-> "args", args |-> serialize(args), args_blob_id |-> NoBlob]

create_input(args, idx) ==
  LET args_serialized == serialize(args)
  IN IF ByteLen(args_serialized) > MAX_OBJECT_SIZE_BYTES
     THEN [idx |-> idx, oneof |-> "args_blob_id", args |-> NoBytes,
           args_blob_id |-> blob_upload(args_serialized)]
     ELSE [idx |-> idx, oneof |-> "args", args |-> args_serialized,
           args_blob_id |-> NoBlob]

\* ------------------------------------------------------------ environment
\* The k-th (0-based) argument tuple of the source stream; the second one is
\* one byte over the inline limit.
SourceArgs(k) ==
  Obj("args", k + 10, "", IF k = 1 THEN MAX_OBJECT_SIZE_BYTES + 1 ELSE MAX_OBJECT_SIZE_BYTES)

\* The arguments the container reads back from a submitted input.
InputArgs(item) ==
  deserialize(IF item.oneof = "args_blob_id" THEN blob_download(item.args_blob_id)
              ELSE item.args)

\* The remote function: square, as in the client tests.
RemoteF(a) == a * a
\* The j-th value of the remote generator for argument a.
RemoteG(a, j) == a * 10 + j

GenericResult(status, gen_status, obj) ==
  IF obj.size > MAX_OBJECT_SIZE_BYTES
  THEN [status |-> status, gen_status |-> gen_status, data_oneof |-> "data_blob_id",
        data |-> NoBytes, data_blob_id |-> blob_upload(serialize(obj)), exception |-> ""]
  ELSE [status |-> status, gen_status |-> gen_status, data_oneof |-> "data",
        data |-> serialize(obj), data_blob_id |-> NoBlob, exception |-> ""]

CompleteResult ==
  [status |-> GENERIC_STATUS_SUCCESS, gen_status |-> GENERATOR_STATUS_COMPLETE,
   data_oneof |-> "data", data |-> NoBytes, data_blob_id |-> NoBlob, exception |-> ""]

\* The value the caller is owed for a function input / the j-th generator item.
FunctionValue(args) == Obj("int", RemoteF(args.val), "", 1 + (args.val % 2) * MAX_OBJECT_SIZE_BYTES)
GeneratorValue(args, j) == Obj("int", RemoteG(args.val, j), "", 1 + (j % 2) * MAX_OBJECT_SIZE_BYTES)
RemoteException(args) == Obj("Exception", args.val, "Failure!", 1)

OutputItem(idx, result) == [idx |-> idx, result |-> result]

\* ------------------------------------------------------------------ state
VARIABLES
  is_generator,      \* map_invocation's is_generator argument
  num_inputs,        \* functions.py:209
  num_outputs,       \* functions.py:208
  have_all_inputs,   \* functions.py:207
  input_queue,       \* functions.py:211
  drain_pc,          \* position of drain_input_generator
  pump_pc,           \* position of pump_inputs
  pump_after,        \* where queue_batch_iterator resumes after a batch
  pump_res,          \* queue_batch_iterator's res while a full batch is sent
  batch,             \* inputs of the PutInputs request in flight
  rejects,           \* PutInputs rejections so far
  poll_pc,           \* position of poll_outputs
  response,          \* outputs of the current response not yet iterated
  pending_outputs,   \* functions.py:245
  slot,              \* per task: the item stream.merge holds for the consumer
  map_status,        \* "idle", "running", "break", "exhausted", "raised"
  map_error,         \* the exception map_invocation raised
  yielded,           \* values map_invocation yielded to its caller
  put_log,           \* accepted PutInputs requests, in order
  srv_count,         \* per idx: generator data items produced so far
  srv_done,          \* idx whose output (or COMPLETE marker) was produced
  received,          \* every output the poll task received, in arrival order
  inv_op,            \* the operation running on the Invocation ("none": a map)
  inv_pc,            \* position of that operation
  timeout,           \* get_items' timeout argument (NoTimeout: None)
  now,               \* what time.time() returns
  t0,                \* functions.py:123
  backend_timeout,   \* functions.py:125-127, 145
  gi_pc,             \* position of get_items
  request,           \* the last FunctionGetOutputsRequest sent
  gi_polls,          \* requests the current get_items call has sent
  gi_empties,        \* empty responses the current get_items call has received
  gi_resp,           \* results of the response get_items has still to yield
  gi_last,           \* results of the last response received
  results,           \* what the current get_items call has yielded
  inv_received,      \* every result received on the call id, in arrival order
  inv_yielded,       \* values run_generator yielded to its caller
  inv_outcome,       \* how the operation ended: value returned, exception, stream end
  srv_gen,           \* the remote function is a generator
  inv_srv,           \* the container's progress on the single input
  inv_outq,          \* results the server holds for FunctionGetOutputs
  cr_pc,             \* position of Invocation.create
  function_id,       \* create's function_id argument
  cr_args,           \* create's args
  function_call_id,  \* functions.py:107
  n_retries,         \* retries the transport wrapper has made in the current call
  rpc_calls,         \* per RPC method: calls create made through the wrapper
  wire,              \* every request attempt sent, with the status it got
  srv_calls,         \* call ids the control plane has handed out
  srv_inputs,        \* inputs the control plane holds, keyed by call id and idx
  cr_error,          \* the error create raised
  ci_pc,             \* _create_input: "ready", "done"
  pr_pc,             \* _process_result: "ready", "done"
  cd_args,           \* the arguments _create_input is given
  cd_idx,            \* the idx _create_input is given
  cd_item,           \* the FunctionPutInputsItem it returned
  cd_payload,        \* the bytes the container wrote for the result
  cd_result,         \* the GenericResult _process_result is given
  cd_outcome,        \* what _process_result returned or raised
  blob_uploads,      \* blob_upload calls made, by data
  blob_downloads     \* blob_download calls made, by blob id

drainvars == <<drain_pc>>
pumpvars == <<pump_pc, pump_after, pump_res, batch, rejects>>
pollvars == <<poll_pc, response, pending_outputs, received>>
srvvars == <<put_log, srv_count, srv_done>>
endvars == <<map_status, map_error, yielded>>
mapvars == <<is_generator, num_inputs, num_outputs, have_all_inputs, input_queue,
             drainvars, pumpvars, pollvars, srvvars, endvars, slot>>
givars == <<timeout, now, t0, backend_timeout, gi_pc, request, gi_polls, gi_empties,
            gi_resp, gi_last, results, inv_received>>
invsrvvars == <<srv_gen, inv_srv, inv_outq>>
invvars == <<inv_op, inv_pc, givars, inv_yielded, inv_outcome, invsrvvars>>

createvars == <<cr_pc, function_id, cr_args, function_call_id, n_retries, rpc_calls,
                wire, srv_calls, srv_inputs, cr_error>>
codecvars == <<ci_pc, pr_pc, cd_args, cd_idx, cd_item, cd_payload, cd_result, cd_outcome,
               blob_uploads, blob_downloads>>
auxvars == <<createvars, codecvars>>

vars == <<mapvars, invvars, auxvars>>

Tasks == {"drain", "pump", "poll"}
EmptySlot == [kind |-> "empty", value |-> NoObj]
NoneSlot == [kind |-> "None", value |-> NoObj]
OutputValue(v) == [kind |-> "OutputValue", value |-> v]
RaiseSlot(e) == [kind |-> "raise", value |-> e]

NoPending == [k \in {} |-> NoObj]

\* ------------------------------------------------------ transport wrapper
\* max_retries=None, functions.py:116
Unlimited == -1
DEFAULT_MAX_RETRIES == 3
TransientStatuses == {"UNAVAILABLE", "DEADLINE_EXCEEDED"}
Statuses == {"OK", "RESOURCE_EXHAUSTED", "NOT_FOUND"} \cup TransientStatuses

\* A wrapper that takes a transport failure for an answer.
retry_transient_errors_Swallows(status, retries, max_retries, additional_status_codes) ==
  IF status \in {"OK"} \cup TransientStatuses THEN "return"
  ELSE IF status \in additional_status_codes THEN "retry"
  ELSE "raise"

\* What the wrapper does once an attempt has ended with a status, after so
\* many retries: hand the response back, try again, or raise the error.
retry_transient_errors(status, retries, max_retries, additional_status_codes) ==
  IF status = "OK" THEN "return"
  ELSE IF /\ status \in TransientStatuses \cup additional_status_codes
          /\ (max_retries = Unlimited \/ retries < max_retries)
       THEN "retry"
       ELSE "raise"

\* A FunctionMap call that is given the policy of the PutInputs call.
FunctionMapPolicy_AsPutInputs ==
  [max_retries |-> Unlimited, additional_status_codes |-> {"RESOURCE_EXHAUSTED"}]

\* functions.py:105: FunctionMap is called with no policy argument.
FunctionMapPolicy ==
  [max_retries |-> DEFAULT_MAX_RETRIES, additional_status_codes |-> {}]

\* functions.py:113-118: max_retries=None, RESOURCE_EXHAUSTED retried too.
PutInputsPolicy ==
  [max_retries |-> Unlimited, additional_status_codes |-> {"RESOURCE_EXHAUSTED"}]

GRPCError(status) == Obj("GRPCError", 0, status, 0)

\* A pump whose PutInputs call is left on the default policy.
PumpPolicy_Default ==
  [max_retries |-> DEFAULT_MAX_RETRIES, additional_status_codes |-> {}]

\* functions.py:230-235: the pump's PutInputs call, max_retries=None and
\* RESOURCE_EXHAUSTED retried too.
PumpPolicy ==
  [max_retries |-> Unlimited, additional_status_codes |-> {"RESOURCE_EXHAUSTED"}]

\* functions.py:248-253: the poll task's FunctionGetOutputs call,
\* max_retries=None.
PollPolicy ==
  [max_retries |-> Unlimited, additional_status_codes |-> {}]

\* ------------------------------------------------------------- map engine
\* functions.py:201-211 and 283: the state once FunctionMap has answered and
\* the three tasks are scheduled.
InitMapVars ==
  /\ num_inputs = 0
  /\ num_outputs = 0
  /\ have_all_inputs = FALSE
  /\ input_queue = <<>>
  /\ drain_pc = "iter"
  /\ pump_pc = "get"
  /\ pump_after = "get"
  /\ pump_res = NoneItem
  /\ batch = <<>>
  /\ rejects = 0
  /\ poll_pc = "rpc"
  /\ response = <<>>
  /\ pending_outputs = NoPending
  /\ slot = [t \in Tasks |-> EmptySlot]
  /\ map_error = NoObj
  /\ yielded = <<>>
  /\ put_log = <<>>
  /\ srv_count = [i \in 0..MaxSource |-> 0]
  /\ srv_done = {}
  /\ received = <<>>

Running == map_status = "running"

\* A drain task that counts the input before it encodes it.
DrainNext_CountsFirst ==
  /\ Running /\ drain_pc = "iter"
  /\ num_inputs < (IF is_generator THEN MaxGenInputs ELSE MaxInputs)
  /\ LET item == create_input(SourceArgs(num_inputs), num_inputs + 1)
     IN /\ num_inputs' = num_inputs + 1
        /\ input_queue' = Append(input_queue, item)
  /\ UNCHANGED <<is_generator, num_outputs, have_all_inputs, drainvars, pumpvars,
                 pollvars, srvvars, endvars, slot, invvars, auxvars>>

\* --- drain_input_generator, functions.py:213-222
\* One more argument tuple from the source: encode it with idx = num_inputs,
\* count it and queue it.
DrainNext ==
  /\ Running /\ drain_pc = "iter"
  /\ num_inputs < (IF is_generator THEN MaxGenInputs ELSE MaxInputs)
  /\ LET item == create_input(SourceArgs(num_inputs), num_inputs)
     IN /\ num_inputs' = num_inputs + 1
        /\ input_queue' = Append(input_queue, item)
  /\ UNCHANGED <<is_generator, num_outputs, have_all_inputs, drainvars, pumpvars,
                 pollvars, srvvars, endvars, slot, invvars, auxvars>>

\* A drain task that ends without queueing the sentinel.
DrainEnd_NoSentinel ==
  /\ Running /\ drain_pc = "iter"
  /\ slot' = [slot EXCEPT !["drain"] = NoneSlot]
  /\ drain_pc' = "yield"
  /\ UNCHANGED <<is_generator, num_inputs, num_outputs, have_all_inputs, input_queue,
                 pumpvars, pollvars, srvvars, endvars, invvars, auxvars>>

\* The source is exhausted: the sentinel is queued and the task yields; it
\* returns when the consumer has taken the yield.
DrainEnd ==
  /\ Running /\ drain_pc = "iter"
  /\ input_queue' = Append(input_queue, NoneItem)
  /\ slot' = [slot EXCEPT !["drain"] = NoneSlot]
  /\ drain_pc' = "yield"
  /\ UNCHANGED <<is_generator, num_inputs, num_outputs, have_all_inputs, pumpvars,
                 pollvars, srvvars, endvars, invvars, auxvars>>

\* A batch iterator that flushes at the sentinel whatever it holds.
RECURSIVE BatchRun_FlushesEmpty(_, _, _)
BatchRun_FlushesEmpty(queue, items, max_batch_size) ==
  IF queue = <<>>
  THEN IF Len(items) > 0
       THEN [at |-> "put", batch |-> items, after |-> "get", res |-> NoneItem, queue |-> queue]
       ELSE [at |-> "get", batch |-> <<>>, after |-> "get", res |-> NoneItem, queue |-> queue]
  ELSE IF Len(items) >= max_batch_size
       THEN [at |-> "put", batch |-> items, after |-> "handle", res |-> Head(queue),
             queue |-> Tail(queue)]
       ELSE IF Head(queue) = NoneItem
            THEN [at |-> "put", batch |-> items, after |-> "finish", res |-> NoneItem,
                  queue |-> Tail(queue)]
            ELSE BatchRun_FlushesEmpty(Tail(queue), Append(items, Head(queue)),
                                       max_batch_size)

\* --- pump_inputs, functions.py:224-239, over queue_batch_iterator
\* queue_batch_iterator(q, max_batch_size) from the top of its loop, with items
\* collected and queue waiting, up to where it next suspends: in q.get() on an
\* empty queue ("get"), with a batch handed to the loop body ("put"), or at its
\* end ("finish"). q.get() does not suspend while the queue holds entries.
RECURSIVE BatchRun(_, _, _)
BatchRun(queue, items, max_batch_size) ==
  IF queue = <<>>
  THEN IF Len(items) > 0
       THEN [at |-> "put", batch |-> items, after |-> "get", res |-> NoneItem, queue |-> queue]
       ELSE [at |-> "get", batch |-> <<>>, after |-> "get", res |-> NoneItem, queue |-> queue]
  ELSE IF Len(items) >= max_batch_size
       THEN [at |-> "put", batch |-> items, after |-> "handle", res |-> Head(queue),
             queue |-> Tail(queue)]
       ELSE IF Head(queue) = NoneItem
            THEN IF Len(items) > 0
                 THEN [at |-> "put", batch |-> items, after |-> "finish", res |-> NoneItem,
                       queue |-> Tail(queue)]
                 ELSE [at |-> "finish", batch |-> <<>>, after |-> "get", res |-> NoneItem,
                       queue |-> Tail(queue)]
            ELSE BatchRun(Tail(queue), Append(items, Head(queue)), max_batch_size)

\* The batch iterator resumes with res taken before the full batch went out.
BatchHandle(res, queue, max_batch_size) ==
  IF res = NoneItem
  THEN [at |-> "finish", batch |-> <<>>, after |-> "get", res |-> NoneItem, queue |-> queue]
  ELSE BatchRun(queue, <<res>>, max_batch_size)

\* A pump that sets have_all_inputs as soon as the iterator has seen the
\* sentinel, with the last batch still to be sent.
PumpGoto_FlagsBeforeSend(r) ==
  /\ input_queue' = r.queue
  /\ batch' = r.batch
  /\ pump_after' = r.after
  /\ pump_res' = r.res
  /\ IF r.at = "finish"
     THEN /\ have_all_inputs' = TRUE
          /\ slot' = [slot EXCEPT !["pump"] = NoneSlot]
          /\ pump_pc' = "yield"
     ELSE /\ pump_pc' = r.at
          /\ have_all_inputs' = (r.after = "finish")
          /\ UNCHANGED slot

\* pump_inputs at its next suspension point: the request of lines 228-236 in
\* flight, or have_all_inputs set and the yield of lines 238-239.
PumpGoto(r) ==
  /\ input_queue' = r.queue
  /\ batch' = r.batch
  /\ pump_after' = r.after
  /\ pump_res' = r.res
  /\ IF r.at = "finish"
     THEN /\ have_all_inputs' = TRUE
          /\ slot' = [slot EXCEPT !["pump"] = NoneSlot]
          /\ pump_pc' = "yield"
     ELSE /\ pump_pc' = r.at
          /\ UNCHANGED <<have_all_inputs, slot>>

\* q.get() returns: the iterator collects what the queue holds.
PumpTake ==
  /\ Running /\ pump_pc = "get"
  /\ input_queue # <<>>
  /\ PumpGoto(BatchRun(input_queue, <<>>, MAP_INVOCATION_CHUNK_SIZE))
  /\ UNCHANGED <<is_generator, num_inputs, num_outputs, rejects,
                 drainvars, pollvars, srvvars, endvars, invvars, auxvars>>

\* A pump whose request lists the batch back to front.
PumpAccept_Reversed ==
  /\ Running /\ pump_pc = "put"
  /\ put_log' = Append(put_log, [k \in 1..Len(batch) |-> batch[Len(batch) + 1 - k]])
  /\ PumpGoto(CASE pump_after = "get" ->
                     [at |-> "get", batch |-> <<>>, after |-> "get", res |-> NoneItem,
                      queue |-> input_queue]
                [] pump_after = "handle" ->
                     BatchHandle(pump_res, input_queue, MAP_INVOCATION_CHUNK_SIZE)
                [] pump_after = "finish" ->
                     [at |-> "finish", batch |-> <<>>, after |-> "get", res |-> NoneItem,
                      queue |-> input_queue])
  /\ UNCHANGED <<is_generator, num_inputs, num_outputs, rejects,
                 drainvars, pollvars, srv_count, srv_done, endvars, invvars, auxvars>>

\* FunctionPutInputs answers OK (functions.py:231-236); the iterator resumes.
PumpAccept ==
  /\ Running /\ pump_pc = "put"
  /\ put_log' = Append(put_log, batch)
  /\ PumpGoto(CASE pump_after = "get" ->
                     [at |-> "get", batch |-> <<>>, after |-> "get", res |-> NoneItem,
                      queue |-> input_queue]
                [] pump_after = "handle" ->
                     BatchHandle(pump_res, input_queue, MAP_INVOCATION_CHUNK_SIZE)
                [] pump_after = "finish" ->
                     [at |-> "finish", batch |-> <<>>, after |-> "get", res |-> NoneItem,
                      queue |-> input_queue])
  /\ UNCHANGED <<is_generator, num_inputs, num_outputs, rejects,
                 drainvars, pollvars, srv_count, srv_done, endvars, invvars, auxvars>>

\* FunctionPutInputs answers RESOURCE_EXHAUSTED or a transient status:
\* retry_transient_errors (max_retries=None) sends the same request again.
PumpReject ==
  /\ Running /\ pump_pc = "put"
  /\ rejects < MaxRejects
  /\ \E status \in Statuses \ {"OK"} :
       retry_transient_errors(status, rejects, PumpPolicy.max_retries,
                              PumpPolicy.additional_status_codes) = "retry"
  /\ rejects' = rejects + 1
  /\ UNCHANGED <<is_generator, num_inputs, num_outputs, have_all_inputs, input_queue,
                 pump_pc, pump_after, pump_res, batch,
                 drainvars, pollvars, srvvars, endvars, slot, invvars, auxvars>>

\* --- the control plane's side of one call id
Range(seq) == {seq[k] : k \in 1..Len(seq)}
Submitted == UNION {Range(put_log[b]) : b \in 1..Len(put_log)}

Success(obj) == GenericResult(GENERIC_STATUS_SUCCESS, GENERATOR_STATUS_NONE, obj)
Failure(obj) == GenericResult(GENERIC_STATUS_FAILURE, GENERATOR_STATUS_NONE, obj)

RECURSIVE SumUpTo(_, _)
SumUpTo(count, k) == IF k < 0 THEN 0 ELSE count[k] + SumUpTo(count, k - 1)
Total(count) == SumUpTo(count, MaxSource)

\* What the containers can output next for a submitted input: the result of a
\* function input, the next item or the COMPLETE marker of a generator input,
\* or a failure; with the server's bookkeeping after it.
NextOutputs(item, done, count) ==
  IF item.idx \in done THEN {}
  ELSE LET fin == done \cup {item.idx}
           args == InputArgs(item)
       IN {[out |-> OutputItem(item.idx, Failure(RemoteException(args))),
            done |-> fin, count |-> count]}
          \cup
          (IF is_generator
           THEN {[out |-> OutputItem(item.idx, CompleteResult), done |-> fin, count |-> count]}
                \cup
                (IF Total(count) < MaxGenItems
                 THEN {[out |-> OutputItem(item.idx,
                                  Success(GeneratorValue(args, count[item.idx] + 1))),
                        done |-> done,
                        count |-> [count EXCEPT ![item.idx] = @ + 1]]}
                 ELSE {})
           ELSE {[out |-> OutputItem(item.idx, Success(FunctionValue(args))),
                  done |-> fin, count |-> count]})

\* Every response FunctionGetOutputs can give: the outputs produced since the
\* last one, in the order they were produced. The poll task stops at a failed
\* result, so what the server would add after one is left out.
RECURSIVE Responses(_, _, _, _)
Responses(resp, done, count, depth) ==
  {[resp |-> resp, done |-> done, count |-> count]}
  \cup
  (IF depth = 0 \/ (resp # <<>> /\ resp[Len(resp)].result.status # GENERIC_STATUS_SUCCESS)
   THEN {}
   ELSE UNION {Responses(Append(resp, n.out), n.done, n.count, depth - 1) :
                 n \in UNION {NextOutputs(item, done, count) : item \in Submitted}})

\* Outputs are still owed for a submitted input.
Outstanding == \E item \in Submitted : item.idx \notin srv_done

\* --- poll_outputs, functions.py:241-281
AssertionError == Obj("AssertionError", 0, "", 0)

\* A store that keeps the value an idx already has.
Put_KeepsFirst(pend, idx, v) ==
  [k \in DOMAIN pend \cup {idx} |-> IF k \in DOMAIN pend THEN pend[k] ELSE v]

Put(pend, idx, v) == [k \in DOMAIN pend \cup {idx} |-> IF k = idx THEN v ELSE pend[k]]
Pop(pend, idx) == [k \in DOMAIN pend \ {idx} |-> pend[k]]

\* The task's next suspension point: its position, what it hands to the merge,
\* and its locals there.
PollSet(pc, sv, no, pend, rest) ==
  /\ poll_pc' = pc
  /\ slot' = [slot EXCEPT !["poll"] = sv]
  /\ num_outputs' = no
  /\ pending_outputs' = pend
  /\ response' = rest

\* As PollCheck, but without the break of lines 278-279.
PollCheck_NoBreak(no, pend) ==
  PollSet("rpc", EmptySlot, no, pend, <<>>)

\* functions.py:276-281, then the next FunctionGetOutputs.
PollCheck(no, pend) ==
  IF have_all_inputs /\ ~(no <= num_inputs)
  THEN PollSet("raised", RaiseSlot(AssertionError), no, pend, <<>>)
  ELSE IF have_all_inputs /\ no = num_inputs
       THEN IF DOMAIN pend = {}
            THEN PollSet("done", EmptySlot, no, pend, <<>>)
            ELSE PollSet("raised", RaiseSlot(AssertionError), no, pend, <<>>)
       ELSE PollSet("rpc", EmptySlot, no, pend, <<>>)

\* As PollEmit, but sending whatever is pending, not the output whose index
\* is num_outputs.
PollEmit_AnyPending(no, pend) ==
  IF DOMAIN pend # {}
  THEN LET k == CHOOSE k \in DOMAIN pend : \A j \in DOMAIN pend : k >= j
       IN PollSet("yield_fn", OutputValue(pend[k]), no, Pop(pend, k), <<>>)
  ELSE PollCheck(no, pend)

\* A poll task that reads the next output without taking it out of
\* pending_outputs.
PollEmit_KeepsPending(no, pend) ==
  IF no \in DOMAIN pend
  THEN PollSet("yield_fn", OutputValue(pend[no]), no, pend, <<>>)
  ELSE PollCheck(no, pend)

\* functions.py:271-274: the next output in index order, if it is there.
PollEmit(no, pend) ==
  IF no \in DOMAIN pend
  THEN PollSet("yield_fn", OutputValue(pend[no]), no, Pop(pend, no), <<>>)
  ELSE PollCheck(no, pend)

\* functions.py:266-268 over a whole response (no suspension point that another
\* task's writes could be seen through).
RECURSIVE StoreOutputs(_, _)
StoreOutputs(resp, pend) ==
  IF resp = <<>>
  THEN [kind |-> "return", pend |-> pend, value |-> NoObj]
  ELSE LET r == process_result(Head(resp).result)
       IN IF r.kind = "raise"
          THEN [kind |-> "raise", pend |-> pend, value |-> r.value]
          ELSE StoreOutputs(Tail(resp), Put(pend, Head(resp).idx, r.value))

\* A poll task that counts the markers of one idx once.
LeadingComplete_PerIdx(resp) ==
  LET n == CHOOSE n \in 0..Len(resp) :
             /\ \A i \in 1..n : resp[i].result.gen_status = GENERATOR_STATUS_COMPLETE
             /\ n < Len(resp) => resp[n + 1].result.gen_status # GENERATOR_STATUS_COMPLETE
  IN Cardinality({resp[i].idx : i \in 1..n})

\* functions.py:260-261: the COMPLETE markers at the head of resp.
RECURSIVE LeadingComplete(_)
LeadingComplete(resp) ==
  IF resp = <<>> \/ Head(resp).result.gen_status # GENERATOR_STATUS_COMPLETE
  THEN 0
  ELSE 1 + LeadingComplete(Tail(resp))

\* As PollItems, but holding generator outputs back for reordering too.
PollItems_AlwaysReorder(resp, no, pend) ==
  LET st == StoreOutputs(SelectSeq(resp, LAMBDA it : it.result.gen_status = GENERATOR_STATUS_NONE),
                         pend)
  IN IF st.kind = "raise"
     THEN PollSet("raised", RaiseSlot(st.value), no, st.pend, <<>>)
     ELSE PollEmit(no, st.pend)

\* A poll task that yields every output as it comes, as for a generator.
PollItems_NeverReorder(resp, no, pend) ==
  LET k == LeadingComplete(resp)
      rest == SubSeq(resp, k + 1, Len(resp))
  IN IF rest = <<>>
     THEN PollEmit(no + k, pend)
     ELSE LET r == process_result(Head(rest).result)
          IN IF r.kind = "raise"
             THEN PollSet("raised", RaiseSlot(r.value), no + k, pend, Tail(rest))
             ELSE PollSet("yield_gen", OutputValue(r.value), no + k, pend, Tail(rest))

\* functions.py:258-268: the for loop from the items resp, up to its next yield.
PollItems(resp, no, pend) ==
  IF is_generator
  THEN LET k == LeadingComplete(resp)
           rest == SubSeq(resp, k + 1, Len(resp))
       IN IF rest = <<>>
          THEN PollEmit(no + k, pend)
          ELSE LET r == process_result(Head(rest).result)
               IN IF r.kind = "raise"
                  THEN PollSet("raised", RaiseSlot(r.value), no + k, pend, Tail(rest))
                  ELSE PollSet("yield_gen", OutputValue(r.value), no + k, pend, Tail(rest))
  ELSE LET st == StoreOutputs(resp, pend)
       IN IF st.kind = "raise"
          THEN PollSet("raised", RaiseSlot(st.value), no, st.pend, <<>>)
          ELSE PollEmit(no, st.pend)

\* FunctionGetOutputs answers (functions.py:248-256). An empty answer while
\* outputs are owed leaves the task where it was and is left out.
PollRpc ==
  /\ Running /\ poll_pc = "rpc"
  /\ \E r \in Responses(<<>>, srv_done, srv_count,
                        Cardinality(Submitted) + MaxGenItems) :
       /\ r.resp = <<>> => ~Outstanding
       /\ srv_done' = r.done
       /\ srv_count' = r.count
       /\ received' = received \o r.resp
       /\ PollItems(r.resp, num_outputs, pending_outputs)
  /\ UNCHANGED <<is_generator, num_inputs, have_all_inputs, input_queue, put_log,
                 drainvars, pumpvars, endvars, invvars, auxvars>>

\* The consumer took the value yielded at line 265.
PollResumeGen ==
  /\ Running /\ poll_pc = "yield_gen" /\ slot["poll"] = EmptySlot
  /\ PollItems(response, num_outputs, pending_outputs)
  /\ UNCHANGED <<is_generator, num_inputs, have_all_inputs, input_queue, received,
                 srvvars, drainvars, pumpvars, endvars, invvars, auxvars>>

\* A poll task that sends one pending output per response: an `if` where
\* line 271 has a `while`.
PollResumeFn_OnePerResponse ==
  /\ Running /\ poll_pc = "yield_fn" /\ slot["poll"] = EmptySlot
  /\ PollCheck(num_outputs + 1, pending_outputs)
  /\ UNCHANGED <<is_generator, num_inputs, have_all_inputs, input_queue, received,
                 srvvars, drainvars, pumpvars, endvars, invvars, auxvars>>

\* The consumer took the value yielded at line 273; line 274 counts it.
PollResumeFn ==
  /\ Running /\ poll_pc = "yield_fn" /\ slot["poll"] = EmptySlot
  /\ PollEmit(num_outputs + 1, pending_outputs)
  /\ UNCHANGED <<is_generator, num_inputs, have_all_inputs, input_queue, received,
                 srvvars, drainvars, pumpvars, endvars, invvars, auxvars>>

\* A merge that, handed an error, first passes on the output another task has
\* ready.
MergeTake_FlushesOnError ==
  /\ Running
  /\ \E t \in Tasks :
       /\ slot[t] # EmptySlot
       /\ slot' = [slot EXCEPT ![t] = EmptySlot]
       /\ drain_pc' = IF t = "drain" /\ slot[t].kind = "None" THEN "done" ELSE drain_pc
       /\ pump_pc' = IF t = "pump" /\ slot[t].kind = "None" THEN "done" ELSE pump_pc
       /\ CASE slot[t].kind = "None" ->
                 /\ map_status' = IF have_all_inputs /\ num_outputs = num_inputs
                                  THEN "break" ELSE "running"
                 /\ UNCHANGED <<map_error, yielded>>
            [] slot[t].kind = "OutputValue" ->
                 /\ yielded' = Append(yielded, slot[t].value)
                 /\ UNCHANGED <<map_status, map_error>>
            [] slot[t].kind = "raise" ->
                 /\ map_status' = "raised"
                 /\ map_error' = slot[t].value
                 /\ yielded' = IF slot["poll"].kind = "OutputValue"
                               THEN Append(yielded, slot["poll"].value)
                               ELSE yielded
  /\ UNCHANGED <<is_generator, num_inputs, num_outputs, have_all_inputs, input_queue,
                 pump_after, pump_res, batch, rejects, pollvars, srvvars, invvars, auxvars>>

\* A consumer that breaks on the first None it is handed.
MergeTake_BreaksOnNone ==
  /\ Running
  /\ \E t \in Tasks :
       /\ slot[t] # EmptySlot
       /\ slot' = [slot EXCEPT ![t] = EmptySlot]
       /\ drain_pc' = IF t = "drain" /\ slot[t].kind = "None" THEN "done" ELSE drain_pc
       /\ pump_pc' = IF t = "pump" /\ slot[t].kind = "None" THEN "done" ELSE pump_pc
       /\ CASE slot[t].kind = "None" ->
                 /\ map_status' = "break"
                 /\ UNCHANGED <<map_error, yielded>>
            [] slot[t].kind = "OutputValue" ->
                 /\ yielded' = Append(yielded, slot[t].value)
                 /\ UNCHANGED <<map_status, map_error>>
            [] slot[t].kind = "raise" ->
                 /\ map_status' = "raised"
                 /\ map_error' = slot[t].value
                 /\ UNCHANGED yielded
  /\ UNCHANGED <<is_generator, num_inputs, num_outputs, have_all_inputs, input_queue,
                 pump_after, pump_res, batch, rejects, pollvars, srvvars, invvars, auxvars>>

\* A consumer that skips every None.
MergeTake_SkipsNone ==
  /\ Running
  /\ \E t \in Tasks :
       /\ slot[t] # EmptySlot
       /\ slot' = [slot EXCEPT ![t] = EmptySlot]
       /\ drain_pc' = IF t = "drain" /\ slot[t].kind = "None" THEN "done" ELSE drain_pc
       /\ pump_pc' = IF t = "pump" /\ slot[t].kind = "None" THEN "done" ELSE pump_pc
       /\ CASE slot[t].kind = "None" ->
                 UNCHANGED <<map_status, map_error, yielded>>
            [] slot[t].kind = "OutputValue" ->
                 /\ yielded' = Append(yielded, slot[t].value)
                 /\ UNCHANGED <<map_status, map_error>>
            [] slot[t].kind = "raise" ->
                 /\ map_status' = "raised"
                 /\ map_error' = slot[t].value
                 /\ UNCHANGED yielded
  /\ UNCHANGED <<is_generator, num_inputs, num_outputs, have_all_inputs, input_queue,
                 pump_after, pump_res, batch, rejects, pollvars, srvvars, invvars, auxvars>>

\* --- the merged stream and its consumer, functions.py:283-293
\* stream.merge hands over what one of the tasks yielded or raised. The drain
\* and pump tasks return once their only yield is taken.
MergeTake ==
  /\ Running
  /\ \E t \in Tasks :
       /\ slot[t] # EmptySlot
       /\ slot' = [slot EXCEPT ![t] = EmptySlot]
       /\ drain_pc' = IF t = "drain" /\ slot[t].kind = "None" THEN "done" ELSE drain_pc
       /\ pump_pc' = IF t = "pump" /\ slot[t].kind = "None" THEN "done" ELSE pump_pc
       /\ CASE slot[t].kind = "None" ->
                 /\ map_status' = IF have_all_inputs /\ num_outputs = num_inputs
                                  THEN "break" ELSE "running"
                 /\ UNCHANGED <<map_error, yielded>>
            [] slot[t].kind = "OutputValue" ->
                 /\ yielded' = Append(yielded, slot[t].value)
                 /\ UNCHANGED <<map_status, map_error>>
            [] slot[t].kind = "raise" ->
                 /\ map_status' = "raised"
                 /\ map_error' = slot[t].value
                 /\ UNCHANGED yielded
  /\ UNCHANGED <<is_generator, num_inputs, num_outputs, have_all_inputs, input_queue,
                 pump_after, pump_res, batch, rejects, pollvars, srvvars, invvars, auxvars>>

\* All three generators returned: the merged stream is over.
MergeExhausted ==
  /\ Running
  /\ drain_pc = "done" /\ pump_pc = "done" /\ poll_pc = "done"
  /\ map_status' = "exhausted"
  /\ UNCHANGED <<is_generator, num_inputs, num_outputs, have_all_inputs, input_queue,
                 drainvars, pumpvars, pollvars, srvvars, map_error, yielded, slot,
                 invvars, auxvars>>

NoOutcome == [kind |-> "none", value |-> NoObj]
\* No call is being created while a map or an operation runs.
NoCallId == 0
InitCreateIdle ==
  /\ cr_pc = "idle"
  /\ function_id = ""
  /\ cr_args = NoObj
  /\ function_call_id = NoCallId
  /\ n_retries = 0
  /\ rpc_calls = [FunctionMap |-> 0, FunctionPutInputs |-> 0, FunctionGetOutputs |-> 0]
  /\ wire = <<>>
  /\ srv_calls = 0
  /\ srv_inputs = {}
  /\ cr_error = NoObj

InitCodecIdle ==
  /\ ci_pc = "idle"
  /\ pr_pc = "idle"
  /\ cd_args = NoObj
  /\ cd_idx = 0
  /\ cd_item = NoneItem
  /\ cd_payload = NoBytes
  /\ cd_result = CompleteResult
  /\ cd_outcome = NoOutcome
  /\ blob_uploads = <<>>
  /\ blob_downloads = <<>>

InitAuxIdle == InitCreateIdle /\ InitCodecIdle

\* No single call is made while a map runs.
NoTimeout == -1
NoRequest == [function_call_id |-> "", timeout |-> 0, return_empty_on_timeout |-> FALSE]
InitInvIdle ==
  /\ inv_op = "none"
  /\ inv_pc = "idle"
  /\ timeout = NoTimeout
  /\ now = 0
  /\ t0 = 0
  /\ backend_timeout = 0
  /\ gi_pc = "idle"
  /\ request = NoRequest
  /\ gi_polls = 0
  /\ gi_empties = 0
  /\ gi_resp = <<>>
  /\ gi_last = <<>>
  /\ results = <<>>
  /\ inv_received = <<>>
  /\ inv_yielded = <<>>
  /\ inv_outcome = NoOutcome
  /\ srv_gen = FALSE
  /\ inv_srv = [count |-> 0, complete |-> FALSE, done |-> TRUE]
  /\ inv_outq = <<>>

Drain == DrainNext \/ DrainEnd
Pump == PumpTake \/ PumpAccept \/ PumpReject
Poll == PollRpc \/ PollResumeGen \/ PollResumeFn
Merge == MergeTake \/ MergeExhausted

InitMap ==
  /\ InitMapVars
  /\ is_generator \in BOOLEAN
  /\ map_status = "running"
  /\ InitInvIdle
  /\ InitAuxIdle

NextMap ==
  \/ DrainNext \/ DrainEnd
  \/ PumpTake \/ PumpAccept \/ PumpReject
  \/ PollRpc \/ PollResumeGen \/ PollResumeFn
  \/ MergeTake \/ MergeExhausted

SpecMap == InitMap /\ [][NextMap]_vars

\* The event loop runs every task that can run, the consumer keeps asking for
\* the next item, and a PutInputs request is accepted in the end.
FairMap ==
  /\ WF_vars(Drain)
  /\ WF_vars(PumpTake) /\ WF_vars(PumpAccept)
  /\ WF_vars(Poll)
  /\ WF_vars(Merge)

FairSpecMap == SpecMap /\ FairMap

\* ------------------------------------------------------------ single call
\* One Invocation on a call id whose single input Invocation.create has
\* submitted: get_items polls FunctionGetOutputs, and run_function,
\* poll_function (FunctionCall.get) or run_generator consumes what it yields.
Min(a, b) == IF a < b THEN a ELSE b
Max(a, b) == IF a > b THEN a ELSE b

\* functions.py:125,127,145: no request waits longer than this on the server.
BACKEND_POLL_MAX == 60

Timeouts == {NoTimeout, 0, ShortTimeout, LongTimeout}
ListOps == {"run_function", "poll_function"}
Count(n) == IF n < MaxPolls THEN n + 1 ELSE n

TimeoutError == Obj("TimeoutError", 0, "", 0)
IndexError == Obj("IndexError", 0, "list index out of range", 0)
StreamEnd == [kind |-> "end", value |-> NoObj]

\* The call's arguments, and the exceptions the remote function may raise:
\* the one of the client tests, or a TimeoutError of its own.
InvArgs == Obj("args", 12, "", 1)
RemoteExceptions == {RemoteException(InvArgs), Obj("TimeoutError", 12, "remote", 1)}

InitInv ==
  /\ InitMapVars
  /\ is_generator = FALSE
  /\ map_status = "idle"
  /\ inv_op \in {"run_function", "poll_function", "run_generator"}
  /\ inv_pc = "call"
  /\ timeout \in (IF inv_op = "poll_function" THEN Timeouts ELSE {NoTimeout})
  /\ now \in {0, 5}
  /\ t0 = 0
  /\ backend_timeout = 0
  /\ gi_pc = "idle"
  /\ request = NoRequest
  /\ gi_polls = 0
  /\ gi_empties = 0
  /\ gi_resp = <<>>
  /\ gi_last = <<>>
  /\ results = <<>>
  /\ inv_received = <<>>
  /\ inv_yielded = <<>>
  /\ inv_outcome = NoOutcome
  /\ srv_gen \in BOOLEAN
  /\ inv_srv = [count |-> 0, complete |-> FALSE, done |-> FALSE]
  /\ inv_outq = <<>>
  /\ InitAuxIdle

\* --- the container and the control plane
\* The container appends the next result of the input: the value or the
\* exception of a function; for a generator a value, the COMPLETE marker or an
\* exception. Nothing stops a server from sending more after COMPLETE.
InvServerProduce ==
  /\ inv_op # "none"
  /\ ~inv_srv.done
  /\ \/ \E exc \in RemoteExceptions :
          /\ inv_outq' = Append(inv_outq, Failure(exc))
          /\ inv_srv' = [inv_srv EXCEPT !.done = TRUE]
     \/ /\ ~srv_gen
        /\ inv_outq' = Append(inv_outq, Success(FunctionValue(InvArgs)))
        /\ inv_srv' = [inv_srv EXCEPT !.done = TRUE]
     \/ /\ srv_gen
        /\ inv_srv.count < MaxCallItems
        /\ inv_outq' = Append(inv_outq, Success(GeneratorValue(InvArgs, inv_srv.count + 1)))
        /\ inv_srv' = [inv_srv EXCEPT !.count = @ + 1,
                                      !.done = inv_srv.complete /\
                                               inv_srv.count + 1 = MaxCallItems]
     \/ /\ srv_gen
        /\ ~inv_srv.complete
        /\ inv_outq' = Append(inv_outq, CompleteResult)
        /\ inv_srv' = [inv_srv EXCEPT !.complete = TRUE,
                                      !.done = inv_srv.count = MaxCallItems]
  /\ UNCHANGED <<mapvars, auxvars, inv_op, inv_pc, givars, inv_yielded, inv_outcome, srv_gen>>

\* The caller's timeout passed to the server as it is.
InitialBackendTimeout_Uncapped(tmo) == IF tmo = NoTimeout THEN BACKEND_POLL_MAX ELSE tmo

\* --- get_items, functions.py:122-147
\* functions.py:123-127
InitialBackendTimeout(tmo) ==
  IF tmo = NoTimeout THEN BACKEND_POLL_MAX ELSE Min(BACKEND_POLL_MAX, tmo)

\* The operation calls get_items: the generator body starts.
GetItemsCall ==
  /\ inv_pc = "call"
  /\ inv_pc' = "iter"
  /\ t0' = now
  /\ backend_timeout' = InitialBackendTimeout(timeout)
  /\ gi_pc' = "send"
  /\ gi_polls' = 0
  /\ gi_empties' = 0
  /\ gi_resp' = <<>>
  /\ gi_last' = <<>>
  /\ results' = <<>>
  /\ UNCHANGED <<mapvars, auxvars, inv_op, timeout, now, request, inv_received, inv_yielded,
                 inv_outcome, invsrvvars>>

\* functions.py:131-137, the request goes out
GetItemsSend ==
  /\ inv_pc = "iter"
  /\ gi_pc = "send"
  /\ request' = [function_call_id |-> "fc-1", timeout |-> backend_timeout,
                 return_empty_on_timeout |-> TRUE]
  /\ gi_polls' = Count(gi_polls)
  /\ gi_pc' = "wait"
  /\ UNCHANGED <<mapvars, auxvars, inv_op, inv_pc, timeout, now, t0, backend_timeout, gi_empties,
                 gi_resp, gi_last, results, inv_received, inv_yielded, inv_outcome,
                 invsrvvars>>

\* A get_items that gives up after an empty response whatever the timeout.
AfterEmpty_GivesUp(tmo, start, bt, clock) == [backend_timeout |-> bt, pc |-> "done"]

\* The loop before line 145: the backend timeout is never refreshed.
AfterEmpty_NoRefresh(tmo, start, bt, clock) == [backend_timeout |-> bt, pc |-> "send"]

\* functions.py:143-147, after an empty response: the next backend timeout and
\* whether the loop goes on.
AfterEmpty(tmo, start, bt, clock) ==
  IF tmo # NoTimeout
  THEN LET remaining == Min(BACKEND_POLL_MAX, start + tmo - clock)
       IN [backend_timeout |-> remaining, pc |-> IF remaining < 0 THEN "done" ELSE "send"]
  ELSE [backend_timeout |-> bt, pc |-> "send"]

\* A get_items that goes on polling after it has yielded a response.
AfterOutputs_NoReturn(res, outputs) == [results |-> res \o outputs, pc |-> "send"]

\* functions.py:138-141, a response with outputs: they are yielded in order,
\* then the generator returns.
AfterOutputs(res, outputs) == [results |-> res \o outputs, pc |-> "done"]

\* How long the server takes to answer a request with backend timeout bt: an
\* empty response comes when bt has run out, outputs come as soon as there are
\* some. A round trip takes time, so the clock has moved when it is over.
Elapsed(bt, empty) == IF empty THEN {Max(bt, 1), bt + 1} ELSE {1, Max(bt, 1)}

\* functions.py:134-147, the response arrives. The server hands out a
\* non-empty prefix of what it holds, or nothing when it holds nothing.
\* time.time() is read again only under a caller timeout (line 143).
GetItemsRecv ==
  /\ inv_pc = "iter"
  /\ gi_pc = "wait"
  /\ \E n \in 0..Len(inv_outq) :
       \E d \in Elapsed(request.timeout, inv_outq = <<>>) :
         /\ (n = 0) = (inv_outq = <<>>)
         /\ LET outputs == SubSeq(inv_outq, 1, n)
                clock == IF timeout = NoTimeout THEN now ELSE now + d
                nxt == AfterEmpty(timeout, t0, backend_timeout, clock)
            IN /\ inv_outq' = SubSeq(inv_outq, n + 1, Len(inv_outq))
               /\ inv_received' = inv_received \o outputs
               /\ gi_last' = outputs
               /\ now' = clock
               /\ IF Len(outputs) > 0
                  THEN /\ gi_resp' = outputs
                       /\ gi_pc' = "yield"
                       /\ UNCHANGED <<backend_timeout, gi_empties>>
                  ELSE /\ gi_empties' = Count(gi_empties)
                       /\ backend_timeout' = nxt.backend_timeout
                       /\ gi_pc' = nxt.pc
                       /\ UNCHANGED gi_resp
  /\ UNCHANGED <<mapvars, auxvars, inv_op, inv_pc, timeout, t0, request, gi_polls, results,
                 inv_yielded, inv_outcome, srv_gen, inv_srv>>

\* functions.py:139-141 under stream.list (lines 150, 155): the list takes
\* every result of the response.
GetItemsYield ==
  /\ inv_pc = "iter"
  /\ gi_pc = "yield"
  /\ inv_op \in ListOps
  /\ LET r == AfterOutputs(results, gi_resp)
     IN /\ results' = r.results
        /\ gi_pc' = r.pc
  /\ gi_resp' = <<>>
  /\ UNCHANGED <<mapvars, auxvars, inv_op, inv_pc, timeout, now, t0, backend_timeout, request,
                 gi_polls, gi_empties, gi_last, inv_received, inv_yielded, inv_outcome,
                 invsrvvars>>

\* A run_function without the assertion of line 151.
run_function_NoAssert(res) ==
  IF Len(res) = 0 THEN Raise(IndexError) ELSE process_result(res[1])

\* --- the operations
\* functions.py:149-152
run_function(res) ==
  IF Len(res) = 0 THEN Raise(IndexError)
  ELSE IF res[1].gen_status # GENERATOR_STATUS_NONE THEN Raise(AssertionError)
  ELSE process_result(res[1])

\* A poll_function that returns None when nothing came.
poll_function_ReturnsNone(res) ==
  IF Len(res) = 0 THEN Return(NoObj) ELSE process_result(res[1])

\* functions.py:154-160
poll_function(res) ==
  IF Len(res) = 0 THEN Raise(TimeoutError) ELSE process_result(res[1])

\* A run_generator that decodes the COMPLETE marker like any result.
generator_step_NoComplete(result) == process_result(result)

\* functions.py:166-169, one result inside run_generator's loop
generator_step(result) ==
  IF result.gen_status = GENERATOR_STATUS_COMPLETE THEN StreamEnd
  ELSE process_result(result)

\* functions.py:150-152 and 155-160, once the list is there
InvFinish ==
  /\ inv_pc = "iter"
  /\ gi_pc = "done"
  /\ inv_op \in ListOps
  /\ inv_outcome' = IF inv_op = "run_function" THEN run_function(results)
                    ELSE poll_function(results)
  /\ inv_pc' = "finished"
  /\ UNCHANGED <<mapvars, auxvars, inv_op, givars, inv_yielded, invsrvvars>>

\* functions.py:164-169: run_generator takes the next result get_items yields,
\* or calls get_items again when the response is used up.
GeneratorNext ==
  /\ inv_pc = "iter"
  /\ gi_pc = "yield"
  /\ inv_op = "run_generator"
  /\ IF gi_resp = <<>>
     THEN /\ gi_pc' = "done"
          /\ inv_pc' = "call"
          /\ UNCHANGED <<gi_resp, results, inv_yielded, inv_outcome>>
     ELSE LET r == generator_step(Head(gi_resp))
          IN /\ results' = Append(results, Head(gi_resp))
             /\ gi_resp' = Tail(gi_resp)
             /\ IF r.kind = "return"
                THEN /\ inv_yielded' = Append(inv_yielded, r.value)
                     /\ UNCHANGED <<inv_pc, gi_pc, inv_outcome>>
                ELSE /\ inv_outcome' = r
                     /\ inv_pc' = "finished"
                     /\ gi_pc' = "closed"
                     /\ UNCHANGED inv_yielded
  /\ UNCHANGED <<mapvars, auxvars, inv_op, timeout, now, t0, backend_timeout, request, gi_polls,
                 gi_empties, gi_last, inv_received, invsrvvars>>

GetItems == GetItemsCall \/ GetItemsSend \/ GetItemsRecv \/ GetItemsYield
Operation == InvFinish \/ GeneratorNext

NextInv ==
  \/ InvServerProduce
  \/ GetItemsCall
  \/ GetItemsSend
  \/ GetItemsRecv
  \/ GetItemsYield
  \/ InvFinish
  \/ GeneratorNext

SpecInv == InitInv /\ [][NextInv]_vars

\* The event loop runs the operation whenever it can go on. Nothing is assumed
\* of the container.
FairInv == WF_vars(GetItems) /\ WF_vars(Operation)

FairSpecInv == SpecInv /\ FairInv

\* ------------------------------------------------------ Invocation.create
\* Invocation.create, functions.py:93-120, over the transport wrapper
\* retry_transient_errors and a control plane that may refuse a request, or
\* serve it and lose the response.

\* Most times the control plane refuses one request that is retried without
\* limit.
MaxPutRejects == 2

InvalidError == Obj("InvalidError", 0, "The function has not been initialized.", 0)

\* The control plane served the request of an attempt that ended with this
\* status: always when it answered OK, never when it refused, and maybe when
\* the transport failed.
Served(status) ==
  IF status = "OK" THEN {TRUE}
  ELSE IF status \in TransientStatuses THEN {TRUE, FALSE}
  ELSE {FALSE}

Attempt(method, call_id, inputs, status) ==
  [method |-> method, function_call_id |-> call_id, inputs |-> inputs, status |-> status]

InitCreate ==
  /\ InitMapVars
  /\ is_generator = FALSE
  /\ map_status = "idle"
  /\ InitInvIdle
  /\ cr_pc = "start"
  /\ function_id \in {"", "fu-1"}
  /\ cr_args \in {SourceArgs(0), SourceArgs(1)}
  /\ function_call_id = NoCallId
  /\ n_retries = 0
  /\ rpc_calls = [FunctionMap |-> 0, FunctionPutInputs |-> 0, FunctionGetOutputs |-> 0]
  /\ wire = <<>>
  /\ srv_calls = 0
  /\ srv_inputs = {}
  /\ cr_error = NoObj
  /\ InitCodecIdle

\* functions.py:95-105: the function_id check, then the FunctionMap call
CreateCall ==
  /\ cr_pc = "start"
  /\ IF function_id = ""
     THEN /\ cr_pc' = "raised"
          /\ cr_error' = InvalidError
          /\ UNCHANGED rpc_calls
     ELSE /\ cr_pc' = "map"
          /\ rpc_calls' = [rpc_calls EXCEPT !.FunctionMap = @ + 1]
          /\ UNCHANGED cr_error
  /\ n_retries' = 0
  /\ UNCHANGED <<mapvars, invvars, codecvars, function_id, cr_args, function_call_id, wire,
                 srv_calls, srv_inputs>>

\* functions.py:105-118: an attempt of FunctionMap ends. With its response
\* create encodes the input and calls PutInputs.
CreateMapAttempt ==
  /\ cr_pc = "map"
  /\ \E status \in Statuses :
       \E served \in Served(status) :
         LET next == retry_transient_errors(status, n_retries, FunctionMapPolicy.max_retries,
                                            FunctionMapPolicy.additional_status_codes)
             id == srv_calls + 1
         IN /\ wire' = Append(wire, Attempt("FunctionMap", NoCallId, <<>>, status))
            /\ srv_calls' = IF served THEN id ELSE srv_calls
            /\ IF next = "return"
               THEN /\ function_call_id' = id
                    /\ cr_pc' = "put"
                    /\ rpc_calls' = [rpc_calls EXCEPT !.FunctionPutInputs = @ + 1]
                    /\ n_retries' = 0
                    /\ UNCHANGED cr_error
               ELSE IF next = "retry"
               THEN /\ n_retries' = n_retries + 1
                    /\ UNCHANGED <<function_call_id, cr_pc, rpc_calls, cr_error>>
               ELSE /\ cr_pc' = "raised"
                    /\ cr_error' = GRPCError(status)
                    /\ UNCHANGED <<function_call_id, rpc_calls, n_retries>>
  /\ UNCHANGED <<mapvars, invvars, codecvars, function_id, cr_args, srv_inputs>>

\* functions.py:109-120: an attempt of PutInputs ends. The control plane keeps
\* one input per call id and idx however often it is sent.
CreatePutAttempt ==
  /\ cr_pc = "put"
  /\ \E status \in Statuses :
       \E served \in Served(status) :
         LET next == retry_transient_errors(status, n_retries, PutInputsPolicy.max_retries,
                                            PutInputsPolicy.additional_status_codes)
             item == create_input(cr_args, 0)
         IN /\ next = "retry" => n_retries < MaxPutRejects
            /\ wire' = Append(wire, Attempt("FunctionPutInputs", function_call_id,
                                            <<item>>, status))
            /\ srv_inputs' = IF served
                             THEN srv_inputs \cup {[function_call_id |-> function_call_id,
                                                    input |-> item]}
                             ELSE srv_inputs
            /\ IF next = "return"
               THEN /\ cr_pc' = "done"
                    /\ UNCHANGED <<n_retries, cr_error>>
               ELSE IF next = "retry"
               THEN /\ n_retries' = n_retries + 1
                    /\ UNCHANGED <<cr_pc, cr_error>>
               ELSE /\ cr_pc' = "raised"
                    /\ cr_error' = GRPCError(status)
                    /\ UNCHANGED n_retries
  /\ UNCHANGED <<mapvars, invvars, codecvars, function_id, cr_args, function_call_id, rpc_calls,
                 srv_calls>>

NextCreate ==
  \/ CreateCall
  \/ CreateMapAttempt
  \/ CreatePutAttempt

SpecCreate == InitCreate /\ [][NextCreate]_vars

\* The event loop runs create whenever an attempt has ended.
FairSpecCreate == SpecCreate /\ WF_vars(NextCreate)

\* ------------------------------------------------------------------ codec
\* _create_input and _process_result each applied once to an input drawn in
\* Init: arguments of every pickle length around the inline limit, and results
\* of either status whose payload travels inline or through the blob store.

\* Pickle lengths tried beyond the inline limit.
MaxOver == 2

\* functions.py:67-68: the blob uploads _create_input makes
create_input_uploads(args) ==
  IF ByteLen(serialize(args)) > MAX_OBJECT_SIZE_BYTES THEN <<serialize(args)>> ELSE <<>>

\* functions.py:34-35: the blob downloads _process_result makes
process_result_downloads(result) ==
  IF result.data_oneof = "data_blob_id" THEN <<result.data_blob_id>> ELSE <<>>

\* Payload bytes a result may carry: none, the pickle of a value, of an
\* exception, or bytes that do not unpickle.
Payloads ==
  {NoBytes, serialize(Obj("int", 7, "", 1)), serialize(RemoteException(InvArgs)),
   <<"junk">>}

\* The result record a container writes for a payload, inline or as a blob.
ResultOf(status, payload, via_blob, exception) ==
  [status |-> status, gen_status |-> GENERATOR_STATUS_NONE,
   data_oneof |-> IF via_blob THEN "data_blob_id" ELSE "data",
   data |-> IF via_blob THEN NoBytes ELSE payload,
   data_blob_id |-> IF via_blob THEN blob_upload(payload) ELSE NoBlob,
   exception |-> exception]

InitCodec ==
  /\ InitMapVars
  /\ is_generator = FALSE
  /\ map_status = "idle"
  /\ InitInvIdle
  /\ InitCreateIdle
  /\ ci_pc = "ready"
  /\ pr_pc = "ready"
  /\ cd_args \in {Obj("args", 7, "", s) : s \in 1..(MAX_OBJECT_SIZE_BYTES + MaxOver)}
  /\ cd_idx \in 0..1
  /\ cd_payload \in Payloads
  /\ \E status \in {GENERIC_STATUS_SUCCESS, GENERIC_STATUS_FAILURE} :
       \E via_blob \in BOOLEAN :
         \E exception \in {"", "boom"} :
           cd_result = ResultOf(status, cd_payload, via_blob, exception)
  /\ cd_item = NoneItem
  /\ cd_outcome = NoOutcome
  /\ blob_uploads = <<>>
  /\ blob_downloads = <<>>

\* functions.py:60-78
CodecCreateInput ==
  /\ ci_pc = "ready"
  /\ ci_pc' = "done"
  /\ cd_item' = create_input(cd_args, cd_idx)
  /\ blob_uploads' = blob_uploads \o create_input_uploads(cd_args)
  /\ UNCHANGED <<mapvars, invvars, createvars, pr_pc, cd_args, cd_idx, cd_payload,
                 cd_result, cd_outcome, blob_downloads>>

\* functions.py:33-57
CodecProcessResult ==
  /\ pr_pc = "ready"
  /\ pr_pc' = "done"
  /\ cd_outcome' = process_result(cd_result)
  /\ blob_downloads' = blob_downloads \o process_result_downloads(cd_result)
  /\ UNCHANGED <<mapvars, invvars, createvars, ci_pc, cd_args, cd_idx, cd_payload,
                 cd_result, cd_item, blob_uploads>>

NextCodec ==
  \/ CodecCreateInput
  \/ CodecProcessResult

SpecCodec == InitCodec /\ [][NextCodec]_vars

\* ------------------------------------------------------ claims: map engine
EndedNormally == map_status \in {"break", "exhausted"}

\* The value a result carries, read the way the server wrote it.
ResultPayload(result) ==
  deserialize(IF result.data_oneof = "data_blob_id"
              THEN blob_download(result.data_blob_id)
              ELSE result.data)

\* C1: when a map over a function ends normally it has yielded exactly one
\* value per input, and the i-th value (0-based) is the decoded output whose
\* idx is i, which is the remote function's value for the i-th source item,
\* whatever the order and grouping the outputs arrived in.
C1_MapYieldsInInputOrder ==
  (~is_generator /\ inv_op = "none" /\ EndedNormally) =>
    /\ Len(yielded) = num_inputs
    /\ \A i \in 1..Len(yielded) :
         /\ \E k \in 1..Len(received) :
              /\ received[k].idx = i - 1
              /\ yielded[i] = ResultPayload(received[k].result)
         /\ yielded[i] = FunctionValue(SourceArgs(i - 1))

\* A map over three inputs has ended after the outputs arrived as 2, 0, 1.
C1_Witness ==
  /\ ~is_generator /\ EndedNormally
  /\ num_inputs = 3 /\ Len(yielded) = 3 /\ Len(received) = 3
  /\ received[1].idx = 2 /\ received[2].idx = 0 /\ received[3].idx = 1

\* C2: under fair scheduling of the drain, pump and poll tasks and of the
\* consumer, with every PutInputs batch accepted in the end and an output (or
\* COMPLETE marker) returned for every submitted input, the result stream of
\* a map over a finite source ends.
C2_MapTerminates == <>(map_status # "running")

\* A map of the longest source ended by exhaustion of its three tasks after a
\* PutInputs request had been rejected and sent again.
C2_Witness ==
  /\ map_status = "exhausted" /\ rejects > 0
  /\ num_inputs = (IF is_generator THEN MaxGenInputs ELSE MaxInputs)
  /\ Len(put_log) > 1

IsData(item) ==
  /\ item.result.gen_status # GENERATOR_STATUS_COMPLETE
  /\ item.result.status = GENERIC_STATUS_SUCCESS

\* The outputs the poll task has iterated over, in arrival order.
Processed == SubSeq(received, 1, Len(received) - Len(response))

\* What map_invocation has yielded plus what the merge holds for its consumer.
Handed ==
  yielded \o (IF slot["poll"].kind = "OutputValue" THEN <<slot["poll"].value>> ELSE <<>>)

\* C3: in a map over a generator the values handed to the caller are, at any
\* moment, the decoded non-COMPLETE outputs the poll task has gone through,
\* each once and in arrival order (no reordering by idx, any number per
\* input); COMPLETE markers are not among them, and when the stream ends
\* normally every received output has been gone through.
C3_GeneratorYieldsInArrivalOrder ==
  (is_generator /\ inv_op = "none") =>
    LET data == SelectSeq(Processed, IsData)
    IN /\ Len(Handed) = Len(data)
       /\ \A i \in 1..Len(data) : Handed[i] = ResultPayload(data[i].result)
       /\ EndedNormally => (response = <<>> /\ Len(yielded) = Len(data))

\* A generator map ended after idx 1's item arrived before idx 0's two items:
\* the values went out in that order.
C3_Witness ==
  /\ is_generator /\ EndedNormally
  /\ Len(yielded) = 2 /\ num_inputs = 2
  /\ \E a, b \in 1..Len(received) :
       /\ a < b /\ received[a].idx = 1 /\ received[b].idx = 0
       /\ IsData(received[a]) /\ IsData(received[b])
       /\ yielded[1] = ResultPayload(received[a].result)
       /\ yielded[2] = ResultPayload(received[b].result)

\* ----------------------------------------------------- claims: single call
IsTimeoutError(outcome) == outcome.kind = "raise" /\ outcome.value.type = "TimeoutError"

\* get_items(timeout=None) has not ended after an empty response, and the step
\* that receives one goes back to sending.
C4_NeverEndsOnEmpty ==
  /\ [](timeout = NoTimeout /\ gi_pc = "done" => gi_last # <<>>)
  /\ [][timeout = NoTimeout /\ gi_pc = "wait" /\ gi_pc' # "wait" /\ gi_last' = <<>>
          => gi_pc' = "send"]_vars

\* Under timeout=None a poll that is due is sent, and a get_items call that is
\* polling while the server holds an output comes to yield a result.
C4_EventuallyYields ==
  /\ (timeout = NoTimeout /\ gi_pc = "send") ~> (gi_pc = "wait")
  /\ (timeout = NoTimeout /\ gi_pc \in {"send", "wait"} /\ inv_outq # <<>>)
       ~> (results # <<>>)

\* C4 as stated: with timeout=None get_items never ends on an empty response,
\* polls again after each one, eventually yields an output the server returns,
\* and FunctionCall.get(timeout=None) never raises TimeoutError.
C4_NoTimeoutErrorAtAll ==
  /\ C4_NeverEndsOnEmpty
  /\ C4_EventuallyYields
  /\ [](inv_op = "poll_function" /\ timeout = NoTimeout => ~IsTimeoutError(inv_outcome))

\* C4, amended: with timeout=None get_items never ends on an empty response,
\* polls again after each one and eventually yields an output the server
\* returns; FunctionCall.get(timeout=None) never raises a TimeoutError of its
\* own: it raises one only as the remote exception of the first output.
C4_NoneWaitsForOutput ==
  /\ C4_NeverEndsOnEmpty
  /\ C4_EventuallyYields
  /\ [](inv_op = "poll_function" /\ timeout = NoTimeout /\ IsTimeoutError(inv_outcome)
          => /\ inv_outcome # Raise(TimeoutError)
             /\ results # <<>>
             /\ results[1].status = GENERIC_STATUS_FAILURE
             /\ inv_outcome = Raise(deserialize(results[1].data)))

\* get(timeout=None) saw three empty responses, then the failure of a remote
\* function that raised TimeoutError, and raised it.
C4_Witness ==
  /\ inv_op = "poll_function"
  /\ timeout = NoTimeout
  /\ gi_empties >= 3
  /\ IsTimeoutError(inv_outcome)

\* C5: what a get_items call yields is the results of one response, its last
\* and first non-empty one, in response order (nothing before that response
\* came); and once that response is there the call sends no further request.
C5_YieldsOneResponse ==
  /\ [](IF gi_pc \in {"yield", "done", "closed"}
        THEN /\ results \o gi_resp = gi_last
             /\ (gi_pc = "done" /\ inv_op \in ListOps => results = gi_last)
             /\ (gi_last # <<>> /\ gi_polls < MaxPolls => gi_empties = gi_polls - 1)
        ELSE results = <<>>)
  /\ [][(gi_pc \in {"yield", "done", "closed"})
          => (request' = request /\
              (gi_polls' = gi_polls \/ (inv_pc = "call" /\ gi_polls' = 0)))]_vars

\* A get_items call has ended after an empty response and then one with two
\* outputs, both yielded, while the server holds a further output.
C5_Witness ==
  /\ inv_op \in ListOps
  /\ gi_pc = "done"
  /\ gi_empties = 1
  /\ gi_polls = 2
  /\ Len(results) = 2
  /\ inv_outq # <<>>

C7_BackendTimeout ==
  gi_pc = "wait" =>
    /\ request.return_empty_on_timeout
    /\ IF timeout = NoTimeout
       THEN request.timeout = BACKEND_POLL_MAX
       ELSE /\ request.timeout = Min(BACKEND_POLL_MAX, t0 + timeout - now)
            /\ 0 <= request.timeout
            /\ request.timeout <= BACKEND_POLL_MAX

\* Under the long caller timeout the second request is in flight with what is
\* left after a first one that ran the full 60.
C7_Witness ==
  /\ timeout = LongTimeout
  /\ gi_pc = "wait"
  /\ gi_polls = 2
  /\ now = t0 + BACKEND_POLL_MAX
  /\ request.timeout = LongTimeout - BACKEND_POLL_MAX

\* C8 as stated: poll_function with a finite timeout raises TimeoutError
\* exactly when no poll returned an output, which takes the deadline to have
\* passed; otherwise it returns the decoded first output or raises its remote
\* error, and that is never a TimeoutError.
C8_TimeoutErrorIffNoOutput ==
  inv_op = "poll_function" /\ timeout # NoTimeout /\ inv_pc = "finished" =>
    /\ IsTimeoutError(inv_outcome) <=> inv_received = <<>>
    /\ inv_received = <<>> => now > t0 + timeout
    /\ inv_received # <<>> => inv_outcome = process_result(inv_received[1])

\* C8, amended: poll_function with a finite timeout raises its own
\* TimeoutError when no poll returned an output, which takes the deadline to
\* have passed; otherwise it returns the decoded first output or raises its
\* remote error, whatever the type of that error.
C8_PollFunctionOutcome ==
  inv_op = "poll_function" /\ timeout # NoTimeout /\ inv_pc = "finished" =>
    /\ inv_received = <<>> => inv_outcome = Raise(TimeoutError) /\ now > t0 + timeout
    /\ inv_received # <<>> => inv_outcome = process_result(inv_received[1])
    /\ inv_outcome = Raise(TimeoutError) => inv_received = <<>>

\* poll_function under the long timeout has raised TimeoutError after the
\* deadline passed over empty polls, although the server holds an output now.
C8_Witness ==
  /\ inv_op = "poll_function"
  /\ inv_pc = "finished"
  /\ timeout = LongTimeout
  /\ gi_empties >= 2
  /\ inv_received = <<>>
  /\ inv_outcome = Raise(TimeoutError)
  /\ inv_outq # <<>>

\* What run_generator does with the results it is handed, from the first on:
\* the values it yields and how it ends.
RECURSIVE GeneratorRun(_)
GeneratorRun(seq) ==
  IF seq = <<>> THEN [yielded |-> <<>>, outcome |-> NoOutcome]
  ELSE IF Head(seq).gen_status = GENERATOR_STATUS_COMPLETE
       THEN [yielded |-> <<>>, outcome |-> StreamEnd]
       ELSE LET r == process_result(Head(seq))
                rest == GeneratorRun(Tail(seq))
            IN IF r.kind = "return"
               THEN [yielded |-> <<r.value>> \o rest.yielded, outcome |-> rest.outcome]
               ELSE [yielded |-> <<>>, outcome |-> r]

\* The results run_generator has taken from get_items, over all rounds.
Consumed == SubSeq(inv_received, 1, Len(inv_received) - Len(gi_resp))

\* C9: run_generator has yielded, in arrival order over the rounds, the
\* decoded values of the results it has taken up to the first COMPLETE (or
\* failure); at the first COMPLETE the stream ends, and then nothing more is
\* yielded or polled, whatever was received after it.
C9_GeneratorStopsAtComplete ==
  /\ [](inv_op = "run_generator" =>
          /\ [yielded |-> inv_yielded, outcome |-> inv_outcome] = GeneratorRun(Consumed)
          /\ inv_outcome # NoOutcome
               => /\ GeneratorRun(inv_received) = GeneratorRun(Consumed)
                  /\ inv_pc = "finished")
  /\ [][inv_op = "run_generator" /\ inv_pc = "finished"
          => UNCHANGED <<inv_yielded, inv_outcome, request, gi_polls, gi_resp>>]_vars

\* Three values, then COMPLETE with a value behind it in the same response,
\* over more than one round: the caller got the three values and the end.
C9_Witness ==
  /\ inv_op = "run_generator"
  /\ inv_outcome = StreamEnd
  /\ Len(inv_yielded) = 3
  /\ Len(inv_received) = 5
  /\ inv_received[4] = CompleteResult
  /\ Len(gi_last) = 3
  /\ gi_resp = <<inv_received[5]>>

\* C10: run_function has not finished before a result was received; every
\* request it sent had no deadline behind it; it ends on the first result
\* received: an AssertionError when that is a COMPLETE marker, else the
\* decoded value or the remote error.
C10_RunFunctionOutcome ==
  inv_op = "run_function" =>
    /\ timeout = NoTimeout
    /\ gi_pc = "wait" => request.timeout = BACKEND_POLL_MAX
    /\ inv_pc = "finished" =>
         /\ inv_received # <<>>
         /\ gi_empties = gi_polls - 1 \/ gi_polls = MaxPolls
         /\ inv_outcome = IF inv_received[1].gen_status = GENERATOR_STATUS_COMPLETE
                          THEN Raise(AssertionError)
                          ELSE process_result(inv_received[1])

\* run_function saw two empty responses and then a COMPLETE marker first in a
\* response of two: the assertion failed.
C10_Witness ==
  /\ inv_op = "run_function"
  /\ inv_pc = "finished"
  /\ gi_empties = 2
  /\ Len(gi_last) = 2
  /\ inv_outcome = Raise(AssertionError)

\* -------------------------------------------------- claims: create, codec
WireOf(method) == {k \in 1..Len(wire) : wire[k].method = method}
WireOK(method) == {k \in WireOf(method) : wire[k].status = "OK"}

\* C11: create calls FunctionMap once and gets one response; every PutInputs
\* attempt comes after that response, with exactly one input, the encoded
\* arguments, and the call id of that response; when create returns, one
\* PutInputs was answered OK and the control plane holds that one input for
\* the call id; create never calls or sends FunctionGetOutputs.
C11_CreateSubmitsOneInput ==
  /\ rpc_calls.FunctionMap <= 1
  /\ rpc_calls.FunctionPutInputs <= 1
  /\ rpc_calls.FunctionGetOutputs = 0
  /\ WireOf("FunctionGetOutputs") = {}
  /\ Cardinality(WireOK("FunctionMap")) <= 1
  /\ Cardinality(WireOK("FunctionPutInputs")) <= 1
  /\ \A p \in WireOf("FunctionPutInputs") :
       /\ \E m \in WireOK("FunctionMap") : m < p
       /\ \A m \in WireOf("FunctionMap") : m < p
       /\ wire[p].inputs = <<create_input(cr_args, 0)>>
       /\ wire[p].function_call_id = function_call_id
       /\ function_call_id = srv_calls
       /\ function_call_id # NoCallId
  /\ cr_pc = "done" =>
       /\ rpc_calls.FunctionMap = 1
       /\ rpc_calls.FunctionPutInputs = 1
       /\ Cardinality(WireOK("FunctionMap")) = 1
       /\ Cardinality(WireOK("FunctionPutInputs")) = 1
       /\ wire[Len(wire)].status = "OK"
       /\ srv_inputs = {[function_call_id |-> function_call_id,
                         input |-> create_input(cr_args, 0)]}

\* create has returned after a FunctionMap attempt that failed in transport,
\* and a PutInputs, with arguments that go through the blob store, that was
\* refused once and served once with its response lost.
C11_Witness ==
  /\ cr_pc = "done"
  /\ \E m \in WireOf("FunctionMap") : wire[m].status \in TransientStatuses
  /\ \E p \in WireOf("FunctionPutInputs") : wire[p].status = "RESOURCE_EXHAUSTED"
  /\ \E p \in WireOf("FunctionPutInputs") :
       /\ wire[p].status \in TransientStatuses
       /\ wire[p].inputs[1].oneof = "args_blob_id"
       /\ srv_inputs # {}
       /\ p < Len(wire) - 1

\* C12: the record _create_input returned carries, for a pickle longer than
\* MAX_OBJECT_SIZE_BYTES, the id of a blob that holds the pickle and no inline
\* bytes, after exactly one blob upload; otherwise the pickle inline, no blob
\* id, and no blob upload was made. It never carries both or neither.
C12_InlineOrBlob ==
  ci_pc = "done" =>
    LET bytes == serialize(cd_args)
    IN /\ cd_item.idx = cd_idx
       /\ IF ByteLen(bytes) > MAX_OBJECT_SIZE_BYTES
          THEN /\ cd_item.oneof = "args_blob_id"
               /\ cd_item.args = NoBytes
               /\ cd_item.args_blob_id # NoBlob
               /\ blob_download(cd_item.args_blob_id) = bytes
               /\ blob_uploads = <<bytes>>
          ELSE /\ cd_item.oneof = "args"
               /\ cd_item.args = bytes
               /\ cd_item.args_blob_id = NoBlob
               /\ blob_uploads = <<>>
       /\ (cd_item.args # NoBytes) # (cd_item.args_blob_id # NoBlob)

\* An input one byte over the limit went out as a blob id.
C12_Witness ==
  /\ ci_pc = "done"
  /\ cd_args.size = MAX_OBJECT_SIZE_BYTES + 1
  /\ cd_item.oneof = "args_blob_id"
  /\ Len(blob_uploads) = 1

\* C13: on a FAILURE result _process_result has raised, never returned: with
\* payload bytes the unpickled remote exception, or ExecutionError when the
\* bytes do not unpickle or unpickle to something that is no exception;
\* without payload bytes RemoteError with result.exception.
C13_FailureAlwaysRaises ==
  pr_pc = "done" /\ cd_result.status = GENERIC_STATUS_FAILURE =>
    /\ cd_outcome.kind = "raise"
    /\ IF cd_payload = NoBytes
       THEN cd_outcome.value = Obj("RemoteError", 0, cd_result.exception, 0)
       ELSE IF CanDeserialize(cd_payload) /\ IsException(deserialize(cd_payload))
            THEN cd_outcome.value = deserialize(cd_payload)
            ELSE cd_outcome.value.type = "ExecutionError"

\* A FAILURE result whose blob unpickles to an int ended in ExecutionError.
C13_Witness ==
  /\ pr_pc = "done"
  /\ cd_result.status = GENERIC_STATUS_FAILURE
  /\ cd_result.data_oneof = "data_blob_id"
  /\ cd_payload = serialize(Obj("int", 7, "", 1))
  /\ cd_outcome.kind = "raise"
  /\ cd_outcome.value.type = "ExecutionError"

\* C14: on a SUCCESS result _process_result has returned the unpickled
\* payload (and nothing else; bytes that do not unpickle raise), having made
\* one blob download, of the result's blob id, when data_oneof selects the
\* blob id, and none when the data is inline.
C14_SuccessReturnsPayload ==
  pr_pc = "done" /\ cd_result.status = GENERIC_STATUS_SUCCESS =>
    /\ CanDeserialize(cd_payload) => cd_outcome = Return(deserialize(cd_payload))
    /\ ~CanDeserialize(cd_payload) => cd_outcome.kind = "raise"
    /\ IF cd_result.data_oneof = "data_blob_id"
       THEN blob_downloads = <<cd_result.data_blob_id>>
       ELSE blob_downloads = <<>> /\ cd_result.data = cd_payload

\* A SUCCESS result whose value sits in a blob was returned after one download.
C14_Witness ==
  /\ pr_pc = "done"
  /\ cd_result.status = GENERIC_STATUS_SUCCESS
  /\ cd_result.data_oneof = "data_blob_id"
  /\ cd_outcome = Return(Obj("int", 7, "", 1))
  /\ Len(blob_downloads) = 1

\* ------------------------------------------- claims: map engine, continued
\* C15: every PutInputs request of the pump task, in flight or accepted,
\* carries at least one and at most MAP_INVOCATION_CHUNK_SIZE inputs.
C15_BatchSizeBounds ==
  /\ \A b \in 1..Len(put_log) :
       Len(put_log[b]) >= 1 /\ Len(put_log[b]) <= MAP_INVOCATION_CHUNK_SIZE
  /\ pump_pc = "put" => Len(batch) >= 1 /\ Len(batch) <= MAP_INVOCATION_CHUNK_SIZE

\* A full batch and a batch of one were accepted, every input is submitted,
\* and the sentinel has arrived at a pump task that holds nothing.
C15_Witness ==
  /\ Running
  /\ pump_pc = "get"
  /\ input_queue = <<NoneItem>>
  /\ Len(put_log) = 2
  /\ Len(put_log[1]) = MAP_INVOCATION_CHUNK_SIZE
  /\ Len(put_log[2]) = 1
  /\ num_inputs = MAP_INVOCATION_CHUNK_SIZE + 1

RECURSIVE Flatten(_)
Flatten(seqs) == IF seqs = <<>> THEN <<>> ELSE Head(seqs) \o Flatten(Tail(seqs))
IsInput(item) == item # NoneItem

\* Every input the drain task has encoded, in the order it queued them:
\* accepted, in the request in flight, taken by the batch iterator, or queued.
Encoded ==
  Flatten(put_log) \o batch
    \o (IF pump_pc = "put" /\ pump_after = "handle" /\ IsInput(pump_res)
        THEN <<pump_res>> ELSE <<>>)
    \o SelectSeq(input_queue, IsInput)

\* C16: the inputs encoded so far are num_inputs many, the k-th of them
\* (from 0) carries idx k and the k-th argument tuple of the source; the step
\* that encodes one gives it idx num_inputs and adds one to num_inputs.
C16_DenseIdx ==
  /\ [](/\ Len(Encoded) = num_inputs
        /\ \A k \in 1..Len(Encoded) :
             /\ Encoded[k].idx = k - 1
             /\ InputArgs(Encoded[k]) = SourceArgs(k - 1))
  /\ [][num_inputs' # num_inputs
          => /\ num_inputs' = num_inputs + 1
             /\ Len(input_queue') = Len(input_queue) + 1
             /\ input_queue'[Len(input_queue')].idx = num_inputs]_vars

\* Three inputs encoded, one accepted, one in flight and one queued behind the
\* sentinel's place.
C16_Witness ==
  /\ ~is_generator
  /\ num_inputs = 3
  /\ Len(put_log) = 1
  /\ pump_pc = "put"
  /\ Len(input_queue) >= 1
  /\ IsInput(input_queue[1])

\* The attempts of FunctionMap create has made, in order.
MapAttempts == SelectSeq(wire, LAMBDA a : a.method = "FunctionMap")

\* C18: under the default retry policy, which FunctionMap uses, an attempt
\* that ends with a status outside the transient set (RESOURCE_EXHAUSTED is
\* outside it) is the last attempt and its error is what create raises; and a
\* transient status is retried at most DEFAULT_MAX_RETRIES times, after which
\* the error of the last attempt is raised.
C18_DefaultPolicySurfaces ==
  /\ Len(MapAttempts) <= DEFAULT_MAX_RETRIES + 1
  /\ \A k \in 1..Len(MapAttempts) :
       LET status == MapAttempts[k].status
       IN /\ status \notin {"OK"} \cup TransientStatuses
               => /\ k = Len(wire)
                  /\ cr_pc = "raised"
                  /\ cr_error = GRPCError(status)
          /\ (status \in TransientStatuses /\ k = DEFAULT_MAX_RETRIES + 1)
               => /\ k = Len(wire)
                  /\ cr_pc = "raised"
                  /\ cr_error = GRPCError(status)
          /\ (status \in TransientStatuses /\ k <= DEFAULT_MAX_RETRIES)
               => (Len(wire) > k \/ cr_pc = "map")
  /\ (wire # <<>> /\ wire[Len(wire)].method = "FunctionMap" /\ cr_pc = "raised")
       => cr_error = GRPCError(wire[Len(wire)].status)

C18_Witness ==
  /\ cr_pc = "raised"
  /\ Len(wire) = DEFAULT_MAX_RETRIES + 1
  /\ wire[1].status = "UNAVAILABLE"
  /\ wire[Len(wire)].status = "DEADLINE_EXCEEDED"
  /\ cr_error = GRPCError("DEADLINE_EXCEEDED")
  /\ rpc_calls.FunctionMap = 1

\* ----------------------------------------- map engine: errors and cancellation
PicklingError == Obj("PicklingError", 0, "cannot pickle", 0)
BlobUploadError == Obj("BlobUploadError", 0, "upload failed", 0)

\* What _create_input can raise for these arguments: serialize fails, or the
\* upload of an oversized payload fails (functions.py:60-78).
create_input_errors(args) ==
  {PicklingError} \cup (IF ByteLen(serialize(args)) > MAX_OBJECT_SIZE_BYTES
                        THEN {BlobUploadError} ELSE {})

\* functions.py:216: _create_input raises in the drain task, before the input
\* is counted or queued.
DrainRaise ==
  /\ Running /\ drain_pc = "iter"
  /\ num_inputs < (IF is_generator THEN MaxGenInputs ELSE MaxInputs)
  /\ \E e \in create_input_errors(SourceArgs(num_inputs)) :
       slot' = [slot EXCEPT !["drain"] = RaiseSlot(e)]
  /\ drain_pc' = "raised"
  /\ UNCHANGED <<is_generator, num_inputs, num_outputs, have_all_inputs, input_queue,
                 pumpvars, pollvars, srvvars, endvars, invvars, auxvars>>

\* functions.py:230-235: a PutInputs attempt ends with a status the wrapper
\* does not retry; the pump task raises it.
PumpRaise ==
  /\ Running /\ pump_pc = "put"
  /\ \E status \in Statuses \ {"OK"} :
       /\ retry_transient_errors(status, rejects, PumpPolicy.max_retries,
                                 PumpPolicy.additional_status_codes) = "raise"
       /\ slot' = [slot EXCEPT !["pump"] = RaiseSlot(GRPCError(status))]
  /\ pump_pc' = "raised"
  /\ UNCHANGED <<is_generator, num_inputs, num_outputs, have_all_inputs, input_queue,
                 pump_after, pump_res, batch, rejects,
                 drainvars, pollvars, srvvars, endvars, invvars, auxvars>>

\* functions.py:248-253: a FunctionGetOutputs attempt ends with a status the
\* wrapper does not retry; the poll task raises it.
PollRaise ==
  /\ Running /\ poll_pc = "rpc"
  /\ \E status \in Statuses \ {"OK"} :
       /\ retry_transient_errors(status, 0, PollPolicy.max_retries,
                                 PollPolicy.additional_status_codes) = "raise"
       /\ PollSet("raised", RaiseSlot(GRPCError(status)), num_outputs, pending_outputs, <<>>)
  /\ UNCHANGED <<is_generator, num_inputs, have_all_inputs, input_queue, received,
                 srvvars, drainvars, pumpvars, endvars, invvars, auxvars>>

\* A close of the result stream that lets the poll task go on.
MapCancel_LeavesPoll ==
  /\ Running
  /\ map_status' = "cancelled"
  /\ drain_pc' = "cancelled"
  /\ pump_pc' = "cancelled"
  /\ \E r \in Responses(<<>>, srv_done, srv_count, Cardinality(Submitted) + MaxGenItems) :
       /\ srv_done' = r.done
       /\ srv_count' = r.count
       /\ received' = received \o r.resp
  /\ UNCHANGED <<is_generator, num_inputs, num_outputs, have_all_inputs, input_queue,
                 pump_after, pump_res, batch, rejects, poll_pc, response, pending_outputs,
                 put_log, map_error, yielded, slot, invvars, auxvars>>

\* functions.py:285-293: the caller cancels map_invocation or closes its
\* stream. Leaving the `async with` block cancels the three tasks where they
\* are suspended; nothing is sent.
MapCancel ==
  /\ Running
  /\ map_status' = "cancelled"
  /\ drain_pc' = "cancelled"
  /\ pump_pc' = "cancelled"
  /\ poll_pc' = "cancelled"
  /\ UNCHANGED <<is_generator, num_inputs, num_outputs, have_all_inputs, input_queue,
                 pump_after, pump_res, batch, rejects, response, pending_outputs, received,
                 srvvars, map_error, yielded, slot, invvars, auxvars>>

NextMapFaults ==
  \/ DrainNext \/ DrainEnd \/ DrainRaise
  \/ PumpTake \/ PumpAccept \/ PumpReject \/ PumpRaise
  \/ PollRpc \/ PollResumeGen \/ PollResumeFn \/ PollRaise
  \/ MergeTake \/ MergeExhausted
  \/ MapCancel

SpecMapFaults == InitMap /\ [][NextMapFaults]_vars

\* The fairness of FairMap; no error and no cancellation has to happen.
FairSpecMapFaults == SpecMapFaults /\ FairMap

\* --------------------------------------------- claims: errors and cancellation
\* The tasks whose generator has raised.
RaisedTasks ==
  {t \in Tasks : (CASE t = "drain" -> drain_pc [] t = "pump" -> pump_pc [] OTHER -> poll_pc)
                   = "raised"}

\* C19 as stated: whenever one of the three tasks has raised, the map does not
\* end normally.
C19_TaskErrorAlwaysRaised ==
  RaisedTasks # {} => ~EndedNormally

\* C19: an error that the merged stream hands to the consumer was raised by
\* one of the three tasks and is what map_invocation raises, with nothing
\* yielded in that step; once it has raised, no task takes a step (no request,
\* no output); what was yielded before stays as it was; a task's error can be
\* left unraised at a normal end only when that end is the break of line 291
\* with every output counted, and the task is the poll task; and under the
\* scheduling of FairMap a task's error never leaves the map running for ever.
C19_SurfacedErrorEndsMap ==
  /\ [][(map_status' = "raised" /\ map_status # "raised")
          => (/\ yielded' = yielded
              /\ \E t \in RaisedTasks : /\ slot[t].kind = "raise"
                                        /\ map_error' = slot[t].value)]_vars
  /\ [][map_status = "raised" => UNCHANGED mapvars]_vars
  /\ [][/\ Len(yielded') >= Len(yielded)
        /\ SubSeq(yielded', 1, Len(yielded)) = yielded]_vars
  /\ []((RaisedTasks # {} /\ EndedNormally)
          => (/\ map_status = "break"
              /\ RaisedTasks = {"poll"}
              /\ have_all_inputs /\ num_outputs = num_inputs))
  /\ ((\E t \in Tasks : slot[t].kind = "raise") ~> ~Running)

C19_Witness ==
  /\ is_generator
  /\ map_status = "raised"
  /\ "pump" \in RaisedTasks
  /\ map_error = GRPCError("NOT_FOUND")
  /\ Len(yielded) = 1
  /\ slot["poll"].kind = "OutputValue"

\* C20: when the caller cancels or closes the result stream, the drain, pump
\* and poll tasks are all terminated by that step, which itself sends nothing
\* and yields nothing (the control plane's state, what was received and what
\* was yielded stay as they were); from then on nothing of the map changes:
\* no PutInputs is sent or accepted, no FunctionGetOutputs is answered, no
\* output is yielded and no error is raised.
C20_CancelStopsTasks ==
  /\ [](map_status = "cancelled"
          => (drain_pc = "cancelled" /\ pump_pc = "cancelled" /\ poll_pc = "cancelled"))
  /\ [][(map_status' = "cancelled" /\ map_status # "cancelled")
          => UNCHANGED <<srvvars, received, response, pending_outputs, batch, rejects,
                         input_queue, num_inputs, num_outputs, yielded, map_error, slot>>]_vars
  /\ [][map_status = "cancelled" => UNCHANGED mapvars]_vars

C20_Witness ==
  /\ ~is_generator
  /\ map_status = "cancelled"
  /\ Len(put_log) = 1
  /\ batch # <<>>
  /\ Len(yielded) = 1
  /\ slot["poll"].kind = "OutputValue"

\* --------------------------------------------------- PutInputs, both callers
\* A PutInputs request is sent by Invocation.create for a single call and by
\* the pump task for a map.
InitPutInputs == InitMap \/ InitCreate

NextPutInputs == NextMapFaults \/ NextCreate

SpecPutInputs == InitPutInputs /\ [][NextPutInputs]_vars

\* FairMap for a map, the event loop running create for a single call. The
\* control plane refuses a request a bounded number of times.
FairSpecPutInputs == SpecPutInputs /\ FairMap /\ WF_vars(NextCreate)

\* The statuses the PutInputs policy has retried.
RetriedStatuses == TransientStatuses \cup {"RESOURCE_EXHAUSTED"}

PutAttempts == SelectSeq(wire, LAMBDA a : a.method = "FunctionPutInputs")

\* C17: a PutInputs attempt that ends with RESOURCE_EXHAUSTED or a transient
\* status is followed by another attempt of the same request, however many
\* attempts there were before, and neither create nor the pump task raises
\* such an error; the batch the control plane accepts after refusing it is
\* the refused batch, no input is accepted twice, a map that ends normally
\* has had every input accepted, and after a refusal the single call is
\* created or the map ends, given that the control plane gives in.
C17_PutInputsRetried ==
  /\ [](\A k \in 1..Len(PutAttempts) :
          PutAttempts[k].status \in RetriedStatuses
            => IF k < Len(PutAttempts)
               THEN /\ PutAttempts[k + 1].inputs = PutAttempts[k].inputs
                    /\ PutAttempts[k + 1].function_call_id = PutAttempts[k].function_call_id
               ELSE cr_pc = "put" /\ n_retries = k)
  /\ []((cr_pc = "raised" /\ PutAttempts # <<>>)
          => /\ PutAttempts[Len(PutAttempts)].status \notin RetriedStatuses
             /\ cr_error = GRPCError(PutAttempts[Len(PutAttempts)].status))
  /\ [](slot["pump"].kind = "raise"
          => slot["pump"].value \notin {GRPCError(s) : s \in RetriedStatuses})
  /\ [][rejects' # rejects
          => (/\ rejects' = rejects + 1
              /\ pump_pc = "put" /\ pump_pc' = "put"
              /\ batch' = batch /\ batch # <<>>
              /\ UNCHANGED <<put_log, slot, map_status>>)]_vars
  /\ [][put_log' # put_log => put_log' = Append(put_log, batch)]_vars
  /\ [](\A i, j \in 1..Len(Flatten(put_log)) :
          Flatten(put_log)[i].idx = Flatten(put_log)[j].idx => i = j)
  /\ [](EndedNormally => Len(Flatten(put_log)) = num_inputs)
  /\ [](Cardinality({a \in Range(wire) : a.method = "FunctionPutInputs" /\ a.status = "OK"})
          <= 1)
  /\ ((rejects > 0) ~> ~Running)
  /\ ((n_retries > 0 /\ cr_pc = "put") ~> (cr_pc \in {"done", "raised"}))

C17_Witness ==
  /\ rejects = 2
  /\ Len(put_log) = 1
  /\ num_inputs >= 1
  /\ EndedNormally
  /\ Len(yielded) >= 1

\* ------------------------------------------------ claims: how a map ends
\* C21: the result stream ends normally, by the break of line 291 or by all
\* three tasks returning, only with have_all_inputs set and num_outputs equal
\* to num_inputs; the step that ends it finds that state and leaves it as it
\* is, and the poll task returns only in that state too.
C21_NormalEndPredicate ==
  /\ [](EndedNormally => (have_all_inputs /\ num_outputs = num_inputs))
  /\ [](poll_pc = "done" => (have_all_inputs /\ num_outputs = num_inputs))
  /\ [][(Running /\ map_status' \in {"break", "exhausted"})
          => (/\ have_all_inputs /\ num_outputs = num_inputs
              /\ UNCHANGED <<have_all_inputs, num_outputs, num_inputs, yielded>>)]_vars

C21_Witness ==
  /\ map_status = "exhausted"
  /\ have_all_inputs
  /\ num_inputs = MaxInputs
  /\ num_outputs = num_inputs
  /\ Len(yielded) = num_inputs

\* The inputs the control plane has accepted, in the order of acceptance.
Accepted == Flatten(put_log)

\* C22: the accepted PutInputs requests carry, read one after the other, the
\* inputs of the source in source order: the k-th accepted input has idx k - 1
\* and the arguments the source produced k-th, so idx rises strictly within
\* and across batches and no input is accepted twice; a map that ends
\* normally has had every input accepted; and an input the drain task has
\* encoded is accepted in the end unless the map ends before.
C22_SubmittedInSourceOrder ==
  /\ [](\A k \in 1..Len(Accepted) :
          /\ Accepted[k].idx = k - 1
          /\ InputArgs(Accepted[k]) = SourceArgs(k - 1))
  /\ [](Len(Accepted) <= num_inputs)
  /\ [](\A b \in 1..Len(put_log) : put_log[b] # <<>>)
  /\ [](EndedNormally => Len(Accepted) = num_inputs)
  /\ \A k \in 1..MaxInputs :
       (num_inputs >= k) ~> (Len(Accepted) >= k \/ ~Running)

C22_Witness ==
  /\ ~is_generator
  /\ Len(put_log) = 2
  /\ Len(put_log[1]) = 2
  /\ Len(Accepted) = 3
  /\ rejects >= 1
  /\ Running

\* C23: have_all_inputs is set only when the source is exhausted (the drain
\* task is past its loop and its sentinel has been taken from the queue) and
\* every input it produced has been accepted, with no request in flight; once
\* set it stays set, and num_inputs and the accepted requests no longer
\* change.
C23_HaveAllInputsStable ==
  /\ [](have_all_inputs
          => (/\ drain_pc \in {"yield", "done"}
              /\ pump_pc \in {"yield", "done"}
              /\ input_queue = <<>>
              /\ batch = <<>>
              /\ Len(Accepted) = num_inputs))
  /\ [][have_all_inputs
          => (have_all_inputs' /\ num_inputs' = num_inputs /\ put_log' = put_log)]_vars
  /\ [][(~have_all_inputs /\ have_all_inputs')
          => (pump_pc' = "yield" /\ slot'["pump"] = NoneSlot)]_vars

C23_Witness ==
  /\ ~is_generator
  /\ have_all_inputs
  /\ num_inputs = MaxInputs
  /\ rejects = MaxRejects
  /\ Len(put_log) = 2
  /\ num_outputs < num_inputs
  /\ Running

\* C24: with a control plane that returns, for each submitted input and for
\* no other idx, its output or COMPLETE marker at most once, neither
\* assertion of the poll task fails: no task raises AssertionError and the
\* map does not end with one, num_outputs never exceeds num_inputs (so not
\* when have_all_inputs is seen at line 277 either), and the poll task
\* returns with pending_outputs empty.
C24_AssertionsHold ==
  /\ \A t \in Tasks : slot[t] # RaiseSlot(AssertionError)
  /\ map_error # AssertionError
  /\ num_outputs <= num_inputs
  /\ poll_pc = "done" => DOMAIN pending_outputs = {}

C24_Witness ==
  /\ ~is_generator
  /\ poll_pc = "done"
  /\ num_inputs = MaxInputs
  /\ num_outputs = num_inputs
  /\ received[1].idx = 2
  /\ Len(received) = 3
  /\ Len(yielded) = 3

\* --------------------------------------- map engine: a repeating control plane
MaxDups == 1

\* Outputs received for an idx that had been received before.
Dups(outs) == Len(outs) - Cardinality({outs[i].idx : i \in 1..Len(outs)})

\* What a repeated output carries; not the value sent the first time.
DuplicateValue(args) == Obj("int", RemoteF(args.val) + 1, "", 1)

Insert(seq, p, x) == SubSeq(seq, 1, p) \o <<x>> \o SubSeq(seq, p + 1, Len(seq))

\* FunctionGetOutputs answers (functions.py:248-256) with, among the outputs
\* produced since the last answer, an output for an idx it has returned
\* already, earlier in this answer or in an earlier one.
PollRpcDup ==
  /\ Running /\ poll_pc = "rpc"
  /\ ~is_generator
  /\ Dups(received) < MaxDups
  /\ \E r \in Responses(<<>>, srv_done, srv_count, Cardinality(Submitted)) :
       \E p \in 0..Len(r.resp) :
         \E k \in srv_done \cup {r.resp[i].idx : i \in 1..p} :
           LET dup == OutputItem(k, Success(DuplicateValue(SourceArgs(k))))
               resp == Insert(r.resp, p, dup)
           IN /\ srv_done' = r.done
              /\ srv_count' = r.count
              /\ received' = received \o resp
              /\ PollItems(resp, num_outputs, pending_outputs)
  /\ UNCHANGED <<is_generator, num_inputs, have_all_inputs, input_queue, put_log,
                 drainvars, pumpvars, endvars, invvars, auxvars>>

InitMapDup ==
  /\ InitMapVars
  /\ is_generator = FALSE
  /\ map_status = "running"
  /\ InitInvIdle
  /\ InitAuxIdle

NextMapDup ==
  \/ DrainNext \/ DrainEnd
  \/ PumpTake \/ PumpAccept \/ PumpReject
  \/ PollRpc \/ PollRpcDup \/ PollResumeFn
  \/ MergeTake \/ MergeExhausted

SpecMapDup == InitMapDup /\ [][NextMapDup]_vars

\* C25 as stated: whatever idx the control plane repeats, no task raises
\* AssertionError and the map does not end with one.
C25_DuplicatesNeverFail ==
  /\ \A t \in Tasks : slot[t] # RaiseSlot(AssertionError)
  /\ map_error # AssertionError

\* The position in outs of the last output for idx k.
LastFor(outs, k) == CHOOSE i \in 1..Len(outs) :
                      /\ outs[i].idx = k
                      /\ \A j \in 1..Len(outs) : outs[j].idx = k => j <= i

\* C25: when the control plane repeats an idx in a map over a function, the
\* value kept in pending_outputs for an idx is the one received last for it;
\* the map yields at most one value per input, in idx order, each the first
\* or the repeated value of its input, and all of them if it ends normally;
\* the poll task returns with pending_outputs empty; and an AssertionError
\* is raised exactly in the runs where an output was received for an idx
\* already yielded: raised after every input's output has been yielded, with
\* that idx left in pending_outputs.
C25_DuplicatesOverwrite ==
  /\ ((\A i \in 1..Len(received) : received[i].result.status = GENERIC_STATUS_SUCCESS)
        => \A k \in DOMAIN pending_outputs :
             pending_outputs[k] = ResultPayload(received[LastFor(received, k)].result))
  /\ Len(yielded) <= num_inputs
  /\ \A i \in 1..Len(yielded) :
       yielded[i] \in {FunctionValue(SourceArgs(i - 1)), DuplicateValue(SourceArgs(i - 1))}
  /\ EndedNormally => Len(yielded) = num_inputs
  /\ poll_pc = "done" => DOMAIN pending_outputs = {}
  /\ \A t \in {"drain", "pump"} : slot[t] # RaiseSlot(AssertionError)
  /\ (slot["poll"] = RaiseSlot(AssertionError) \/ map_error = AssertionError)
       => (/\ have_all_inputs /\ num_outputs = num_inputs
           /\ Len(yielded) = num_inputs
           /\ DOMAIN pending_outputs # {}
           /\ \A k \in DOMAIN pending_outputs : k < num_outputs)
  /\ (have_all_inputs /\ num_outputs = num_inputs /\ poll_pc \notin {"rpc", "yield_fn"}
        /\ \E k \in DOMAIN pending_outputs : k < num_outputs)
       => (slot["poll"] = RaiseSlot(AssertionError) \/ map_error = AssertionError
           \/ map_status = "break")

C25_Witness ==
  /\ EndedNormally
  /\ num_inputs = MaxInputs
  /\ Len(yielded) = num_inputs
  /\ Dups(received) = 1
  /\ yielded[2] = DuplicateValue(SourceArgs(1))

\* ------------------------------------ map engine: markers without their idx
\* FunctionGetOutputs answers (functions.py:248-256) with the COMPLETE markers
\* carrying idx 0 whatever input they end.
PollRpcUnindexed ==
  /\ Running /\ poll_pc = "rpc"
  /\ is_generator
  /\ \E r \in Responses(<<>>, srv_done, srv_count,
                        Cardinality(Submitted) + MaxGenItems) :
       LET resp == [i \in 1..Len(r.resp) |->
                      IF r.resp[i].result.gen_status = GENERATOR_STATUS_COMPLETE
                      THEN OutputItem(0, CompleteResult)
                      ELSE r.resp[i]]
       IN /\ \E i \in 1..Len(resp) : resp[i] # r.resp[i]
          /\ srv_done' = r.done
          /\ srv_count' = r.count
          /\ received' = received \o resp
          /\ PollItems(resp, num_outputs, pending_outputs)
  /\ UNCHANGED <<is_generator, num_inputs, have_all_inputs, input_queue, put_log,
                 drainvars, pumpvars, endvars, invvars, auxvars>>

InitMapGen ==
  /\ InitMapVars
  /\ is_generator = TRUE
  /\ map_status = "running"
  /\ InitInvIdle
  /\ InitAuxIdle

NextMapGen ==
  \/ DrainNext \/ DrainEnd
  \/ PumpTake \/ PumpAccept \/ PumpReject
  \/ PollRpc \/ PollRpcUnindexed \/ PollResumeGen
  \/ MergeTake \/ MergeExhausted

SpecMapGen == InitMapGen /\ [][NextMapGen]_vars

FairSpecMapGen ==
  /\ SpecMapGen
  /\ WF_vars(Drain)
  /\ WF_vars(PumpTake) /\ WF_vars(PumpAccept)
  /\ WF_vars(PollRpc \/ PollRpcUnindexed \/ PollResumeGen)
  /\ WF_vars(Merge)

IsComplete(item) == item.result.gen_status = GENERATOR_STATUS_COMPLETE

\* C26: in a map over a generator num_outputs is the number of COMPLETE
\* markers the poll task has gone through, whatever idx they carry; a step
\* that goes through no marker leaves it as it is; the poll task returns only
\* with that number equal to num_inputs and have_all_inputs set; and once
\* that is so the result stream ends.
C26_CountsCompleteMarkers ==
  /\ [](num_outputs = Len(SelectSeq(Processed, IsComplete)))
  /\ [][Len(SelectSeq(Processed', IsComplete)) = Len(SelectSeq(Processed, IsComplete))
          => num_outputs' = num_outputs]_vars
  /\ [](poll_pc = "done" => (have_all_inputs /\ num_outputs = num_inputs))
  /\ ((have_all_inputs /\ num_outputs = num_inputs) ~> ~Running)

C26_Witness ==
  /\ EndedNormally
  /\ num_inputs = MaxGenInputs
  /\ num_outputs = num_inputs
  /\ Len(yielded) = MaxGenItems
  /\ Len(SelectSeq(received, LAMBDA it : IsComplete(it) /\ it.idx = 0)) = MaxGenInputs

\* ------------------------------------------ claims: a late have_all_inputs
\* FairMap without the control plane answering FunctionGetOutputs: the event
\* loop runs the tasks and the consumer, PutInputs is accepted in the end.
FairSpecMapNoAnswer ==
  /\ SpecMap
  /\ WF_vars(Drain)
  /\ WF_vars(PumpTake) /\ WF_vars(PumpAccept)
  /\ WF_vars(PollResumeGen \/ PollResumeFn)
  /\ WF_vars(Merge)

\* The source is exhausted and the poll task has handed over the output of
\* every input, while the pump has not set have_all_inputs yet: the poll task
\* is in its next FunctionGetOutputs call, or at the yield of its last output.
AllDeliveredEarly ==
  /\ Running /\ ~have_all_inputs
  /\ drain_pc # "iter"
  /\ \/ poll_pc = "rpc" /\ num_outputs = num_inputs
     \/ /\ poll_pc = "yield_fn" /\ num_outputs + 1 = num_inputs
        /\ DOMAIN pending_outputs = {}

\* C27: from there the result stream ends, even if FunctionGetOutputs is
\* never answered again; and when it ends with the poll task still in that
\* call, it ends by the break on the pump's or the drain's None.
C27_LateHaveAllInputsEnds ==
  /\ AllDeliveredEarly ~> ~Running
  /\ []((EndedNormally /\ poll_pc = "rpc") => map_status = "break")

C27_Witness ==
  /\ ~is_generator
  /\ map_status = "break"
  /\ poll_pc = "rpc"
  /\ pump_pc = "done"
  /\ num_inputs = MaxInputs
  /\ Len(yielded) = num_inputs

\* ------------------------------------------------ claims: the reorder buffer
\* C28: in a map over a function, at every point of a run, whether it goes
\* on, has ended, has raised or was cancelled, the values yielded are the
\* outputs of the inputs 0 .. k-1 in that order, each once: the i-th is the
\* remote function's value for the i-th source item and was received as a
\* successful output with that idx; and no value is yielded for an index at
\* or above one whose output was received as a failure.
C28_YieldedIsPrefix ==
  ~is_generator =>
    /\ Len(yielded) <= num_inputs
    /\ \A i \in 1..Len(yielded) :
         /\ yielded[i] = FunctionValue(SourceArgs(i - 1))
         /\ \E k \in 1..Len(received) :
              /\ received[k].idx = i - 1
              /\ received[k].result.status = GENERIC_STATUS_SUCCESS
    /\ \A k \in 1..Len(received) :
         received[k].result.status = GENERIC_STATUS_FAILURE => Len(yielded) <= received[k].idx
    /\ Len(yielded) \in {num_outputs, num_outputs + 1}

C28_Witness ==
  /\ ~is_generator
  /\ map_status = "raised"
  /\ map_error = RemoteException(SourceArgs(1))
  /\ Len(yielded) = 1
  /\ 2 \in DOMAIN pending_outputs

\* The poll task has finished an iteration of its while loop: a response has
\* been gone through and the task is in its next call or has returned.
IterationEnded == poll_pc \in {"rpc", "done"} /\ received # <<>>

\* C29 as stated: at the end of every poll iteration the buffer holds fewer
\* than num_inputs - num_outputs entries.
C29_FewerThanOutstanding ==
  (~is_generator /\ IterationEnded)
    => Cardinality(DOMAIN pending_outputs) < num_inputs - num_outputs

\* C29: in a map over a function, at the end of every poll iteration each
\* key k of pending_outputs has num_outputs < k < num_inputs, so the buffer
\* never holds an index already yielded and holds at most
\* num_inputs - num_outputs - 1 entries, none when num_outputs equals
\* num_inputs; while the task is at the yield of line 273 the keys are above
\* num_outputs too.
C29_PendingKeysBounded ==
  ~is_generator =>
    /\ IterationEnded
         => /\ \A k \in DOMAIN pending_outputs : num_outputs < k /\ k < num_inputs
            /\ Cardinality(DOMAIN pending_outputs) <= Max(0, num_inputs - num_outputs - 1)
            /\ num_outputs = num_inputs => DOMAIN pending_outputs = {}
    /\ poll_pc = "yield_fn"
         => \A k \in DOMAIN pending_outputs : num_outputs < k /\ k < num_inputs
    /\ num_outputs <= num_inputs

C29_Witness ==
  /\ ~is_generator
  /\ IterationEnded
  /\ poll_pc = "rpc"
  /\ num_inputs = MaxInputs
  /\ num_outputs = 0
  /\ DOMAIN pending_outputs = {1, 2}

\* ---------------------------------------------------- claims: empty source
\* The source stream ended without an item.
EmptySource == drain_pc # "iter" /\ num_inputs = 0

\* C30: a map over an empty source never has a PutInputs request in flight
\* or accepted, yields nothing and raises nothing; it ends, normally and
\* with have_all_inputs set and num_outputs = 0, even if FunctionGetOutputs
\* is never answered, and it does not end before the pump has set
\* have_all_inputs.
C30_EmptySourceEnds ==
  /\ [](EmptySource
          => (/\ put_log = <<>> /\ batch = <<>> /\ pump_pc # "put" /\ rejects = 0
              /\ yielded = <<>> /\ received = <<>>
              /\ num_outputs = 0
              /\ map_status \in {"running", "break", "exhausted"}))
  /\ []((EmptySource /\ ~Running) => have_all_inputs)
  /\ EmptySource ~> EndedNormally

C30_Witness ==
  /\ EmptySource
  /\ map_status = "break"
  /\ have_all_inputs
  /\ poll_pc = "rpc"
  /\ drain_pc = "done"
  /\ pump_pc = "yield"

====
